---- MODULE Spec2Model ----
(***************************************************************************)
(* Model of the review workspace of docreview-pro (ReviewClient): the      *)
(* highlight renderer, the in-memory annotation store with its activity    *)
(* log, version carry-over, the remap workflow and JSON export / import.   *)
(***************************************************************************)
EXTENDS Integers, Sequences, FiniteSets, TLC

(***************************************************************************)
(* Bounds of the model.                                                    *)
(***************************************************************************)
\* length of the paragraph text handed to the renderer
MaxLen == 4
\* number of highlight spans handed to the renderer
MaxSpans == 2
\* number of ids genId hands out
MaxIds == 4

VARIABLES
    \* ---- highlight renderer (pure function, its input and its output)
    rText,          \* paragraphText
    rHighlights,    \* highlights, in insertion order
    rParts,         \* the parts array built by renderHighlightedParagraph
    rPhase,         \* "input" before the call, "done" after it, "selected"
                    \* after a mouse-up in the rendered paragraph
    rSelection      \* window.getSelection() at that mouse-up

VARIABLES
    \* ---- ReviewClient component state (useState hooks)
    versionId,              \* id of the version on display
    annotationsByVersion,   \* version id -> list of annotations (the buckets)
    activity,               \* activity log, most recent first
    selectedAnnotationId,   \* id or NullId
    selectionDraft,         \* SelectionDraft or NoDraft
    showModal,              \* the create dialog is open
    remapTargetId,          \* id or NullId
    mode,                   \* "editor" | "viewer"
    \* ---- environment
    idCounter,              \* number of ids genId has handed out
    exportedFile,           \* the file written by the last exportJson
    exportedFrom,           \* the store that export was taken from (history)
    pendingReads,           \* the file reads of importJsonFile not yet resolved,
                            \* in the order they were started
    idLimit                 \* number of ids genId hands out in this behaviour

renderVars == <<rText, rHighlights, rParts, rPhase, rSelection>>

storeVars == <<versionId, annotationsByVersion, activity>>

uiVars == <<selectedAnnotationId, selectionDraft, showModal, remapTargetId, mode>>

envVars == <<idCounter, exportedFile, exportedFrom, pendingReads, idLimit>>

vars == <<rText, rHighlights, rParts, rPhase, rSelection,
          versionId, annotationsByVersion, activity,
          selectedAnnotationId, selectionDraft, showModal,
          remapTargetId, mode,
          idCounter, exportedFile, exportedFrom, pendingReads, idLimit>>

(***************************************************************************)
(* Highlight renderer                                                      *)
(***************************************************************************)
Min2(a, b) == IF a < b THEN a ELSE b
Max2(a, b) == IF a > b THEN a ELSE b

\* clamp(n, min, max) = Math.max(min, Math.min(max, n))
clamp(n, min, max) == Max2(min, Min2(max, n))

\* paragraphText.slice(a, b) for 0 <= a, 0 <= b (characters a .. b-1)
Slice(text, a, b) ==
    LET a2 == Min2(a, Len(text))
        b2 == Min2(b, Len(text))
    IN  IF b2 <= a2 THEN <<>> ELSE SubSeq(text, a2 + 1, b2)

\* [...highlights].sort((a, b) => a.start - b.start): a stable sort on the
\* raw (unclamped) start
RECURSIVE InsertByStart(_, _)
InsertByStart(h, s) ==
    IF s = <<>> THEN <<h>>
    ELSE IF Head(s).start < h.start
         THEN <<Head(s)>> \o InsertByStart(h, Tail(s))
         ELSE <<h>> \o s

RECURSIVE SortByStart(_)
SortByStart(hs) ==
    IF hs = <<>> THEN <<>>
    ELSE InsertByStart(Head(hs), SortByStart(Tail(hs)))

\* variant: the cursor skips the character behind the mark
CursorPastEnd(cursor, end) == end + 1

\* the value the cursor takes after a mark has been pushed
CursorAfter(cursor, end) == end

TextPart(text, from, to) ==
    [kind |-> "text", value |-> Slice(text, from, to), start |-> from, end |-> to]

MarkPart(text, h, start, end) ==
    [kind |-> "mark", value |-> Slice(text, start, end), start |-> start,
     end |-> end, id |-> h.id, status |-> h.status]

\* the for loop over sorted, from its i-th element on
RECURSIVE Sweep(_, _, _, _, _)
Sweep(text, sorted, i, cursor, parts) ==
    IF i > Len(sorted)
    THEN IF cursor < Len(text)
         THEN Append(parts, TextPart(text, cursor, Len(text)))
         ELSE parts
    ELSE LET h     == sorted[i]
             start == clamp(h.start, 0, Len(text))
             end   == clamp(h.end, 0, Len(text))
         IN  IF end <= start
             THEN Sweep(text, sorted, i + 1, cursor, parts)
             ELSE LET gap == IF start > cursor
                             THEN Append(parts, TextPart(text, cursor, start))
                             ELSE parts
                  IN  Sweep(text, sorted, i + 1, CursorAfter(cursor, end),
                            Append(gap, MarkPart(text, h, start, end)))

\* renderHighlightedParagraph: the fragments it renders, in order.  With no
\* highlight the paragraph text itself is returned, i.e. one plain fragment.
renderHighlightedParagraph(text, highlights) ==
    IF Len(highlights) = 0
    THEN <<TextPart(text, 0, Len(text))>>
    ELSE Sweep(text, SortByStart(highlights), 1, 0, <<>>)

(***************************************************************************)
(* Reference data: the document under review and the user directory        *)
(***************************************************************************)
NullId == 0
NullStr == "<null>"

DocId == "d1"

\* doc.versions, in the order the document lists them
DocVersions ==
    << [id |-> "v1", versionNumber |-> 1],
       [id |-> "v2", versionNumber |-> 2] >>

VersionIds == { DocVersions[i].id : i \in DOMAIN DocVersions }

\* doc.versions.slice().sort((a, b) => b.versionNumber - a.versionNumber)
RECURSIVE InsertByNumberDesc(_, _)
InsertByNumberDesc(v, s) ==
    IF s = <<>> THEN <<v>>
    ELSE IF Head(s).versionNumber > v.versionNumber
         THEN <<Head(s)>> \o InsertByNumberDesc(v, Tail(s))
         ELSE <<v>> \o s

RECURSIVE SortByNumberDesc(_)
SortByNumberDesc(vs) ==
    IF vs = <<>> THEN <<>>
    ELSE InsertByNumberDesc(Head(vs), SortByNumberDesc(Tail(vs)))

versions == SortByNumberDesc(DocVersions)

\* ReviewPage: the latest version is the one shown first
initialVersionId == versions[1].id

\* a user of the directory
UserIds == {"u1"}

\* the fields of the create dialog as openCreateModal resets them
DialogDefaults ==
    [category |-> "Clarification", severity |-> "Medium", assigneeId |-> "",
     comment |-> ""]

\* the fields of the create dialog when Create is pressed: the defaults, or
\* what the user has entered through the dialog's onChange handlers
DialogInputs ==
    { DialogDefaults,
      [category |-> "Compliance", severity |-> "High", assigneeId |-> "u1",
       comment |-> " c "] }

\* comment.trim()
Trim(s) == IF s = " c " THEN "c" ELSE s

(***************************************************************************)
(* Selection drafts (the results getSelectionDraft can hand to the store)  *)
(***************************************************************************)
NoDraft ==
    [sectionId |-> "", paraIndex |-> 0, startLocal |-> 0, endLocal |-> 0,
     quote |-> ""]

Drafts ==
    { [sectionId |-> "s1", paraIndex |-> 0, startLocal |-> 0, endLocal |-> 5,
       quote |-> "This "],
      [sectionId |-> "s2", paraIndex |-> 1, startLocal |-> 3, endLocal |-> 8,
       quote |-> "ivera"] }

(***************************************************************************)
(* getSelectionDraft: from the browser's selection to a draft              *)
(***************************************************************************)
\* window.getSelection() as getSelectionDraft reads it.  The boundary points
\* of the range are (text node, offset in that text node); the text nodes of
\* a paragraph are its rendered fragments, numbered from 1.
\*   present       sel && sel.rangeCount > 0
\*   isCollapsed   sel.isCollapsed
\*   rectEmpty     the bounding rectangle has width 0 and height 0
\*   inViewer      viewerRoot.contains(commonEl)
\*   text          sel.toString(), a sequence of characters
\*   startPara, endPara   the closest [data-para='true'] of either end, or ""
\*   sectionId, paraIndexStr   startPara.dataset, "" for a missing attribute
\*   startNode, startOffset, endNode, endOffset   the boundary points
NoSelection ==
    [present |-> FALSE, isCollapsed |-> TRUE, rectEmpty |-> TRUE,
     inViewer |-> FALSE, text |-> <<>>, startPara |-> "", endPara |-> "",
     sectionId |-> "", paraIndexStr |-> "",
     startNode |-> 0, startOffset |-> 0, endNode |-> 0, endOffset |-> 0]

\* String.prototype.trim on a sequence of characters
RECURSIVE TrimStart(_)
TrimStart(cs) ==
    IF cs # <<>> /\ Head(cs) = " " THEN TrimStart(Tail(cs)) ELSE cs

RECURSIVE TrimEnd(_)
TrimEnd(cs) ==
    IF cs # <<>> /\ cs[Len(cs)] = " "
    THEN TrimEnd(SubSeq(cs, 1, Len(cs) - 1))
    ELSE cs

TrimChars(cs) == TrimEnd(TrimStart(cs))

\* the characters as one string
RECURSIVE StringOf(_)
StringOf(cs) == IF cs = <<>> THEN "" ELSE Head(cs) \o StringOf(Tail(cs))

\* Number(paraIndexStr) for the values data-para-index can hold
NumberOf(str) ==
    IF str = "0" THEN [finite |-> TRUE, n |-> 0]
    ELSE IF str = "1" THEN [finite |-> TRUE, n |-> 1]
    ELSE [finite |-> FALSE, n |-> 0]

\* variant: the two ends may lie in different paragraphs
SelectionRejectedUnlessOutside(sel) ==
    \/ ~ sel.present
    \/ sel.isCollapsed
    \/ sel.rectEmpty
    \/ ~ sel.inViewer
    \/ TrimChars(sel.text) = <<>>
    \/ sel.startPara = "" \/ sel.endPara = ""
    \/ sel.sectionId = "" \/ sel.paraIndexStr = ""
    \/ ~ NumberOf(sel.paraIndexStr).finite
    \/ sel.startOffset = sel.endOffset

\* the early returns of getSelectionDraft
SelectionRejected(sel) ==
    \/ ~ sel.present
    \/ sel.isCollapsed
    \/ sel.rectEmpty
    \/ ~ sel.inViewer
    \/ TrimChars(sel.text) = <<>>
    \/ sel.startPara = "" \/ sel.endPara = ""
    \/ sel.startPara # sel.endPara
    \/ sel.sectionId = "" \/ sel.paraIndexStr = ""
    \/ ~ NumberOf(sel.paraIndexStr).finite
    \/ sel.startOffset = sel.endOffset

\* getSelectionDraft(viewerRoot), null being NoDraft
getSelectionDraft(sel) ==
    IF SelectionRejected(sel)
    THEN NoDraft
    ELSE [sectionId |-> sel.sectionId,
          paraIndex |-> NumberOf(sel.paraIndexStr).n,
          startLocal |-> Min2(sel.startOffset, sel.endOffset),
          endLocal |-> Max2(sel.startOffset, sel.endOffset),
          quote |-> StringOf(TrimChars(sel.text))]

(***************************************************************************)
(* Anchors, annotations, activity items                                    *)
(***************************************************************************)
TextRangeAnchor(sectionId, start, end) ==
    [kind |-> "TextRange", sectionId |-> sectionId, start |-> start, end |-> end]

UnanchoredAnchor(reason) == [kind |-> "Unanchored", reason |-> reason]

isTextRangeAnchor(anchor) == anchor.kind = "TextRange"

isUnanchoredAnchor(anchor) ==
    anchor.kind = "Unanchored"
        /\ anchor.reason \in {"NotFoundInVersion", "UserNeedsRemap"}

ActivityItem(id, at, type, meta) ==
    [id |-> id, at |-> at, type |-> type, meta |-> meta]

\* prev[versionId] ?? []
Bucket(abv, v) == IF v \in DOMAIN abv THEN abv[v] ELSE <<>>

\* { ...prev, [versionId]: list }
PutOnlyBucket(abv, v, list) == [k \in {v} |-> list]

PutBucket(abv, v, list) ==
    [k \in (DOMAIN abv) \cup {v} |-> IF k = v THEN list ELSE abv[k]]

currentAnnotations == Bucket(annotationsByVersion, versionId)

\* variant: a search that finds nothing settles for the first annotation
FindIdxOrFirst(list, id) ==
    IF \E i \in DOMAIN list : list[i].id = id
    THEN CHOOSE i \in DOMAIN list :
            list[i].id = id /\ \A j \in DOMAIN list : list[j].id = id => i <= j
    ELSE IF list = <<>> THEN 0 ELSE 1

\* index of the first annotation of list with the given id, 0 when there is none
\* (list.find((a) => a.id === id))
FindIdx(list, id) ==
    IF \E i \in DOMAIN list : list[i].id = id
    THEN CHOOSE i \in DOMAIN list :
            list[i].id = id /\ \A j \in DOMAIN list : list[j].id = id => i <= j
    ELSE 0

\* variant: the role is never read-only
NeverReadOnly == FALSE

isReadOnly == mode = "viewer"

\* const currentVersionIndex / previousVersionId
currentVersionIndex ==
    IF \E i \in DOMAIN versions : versions[i].id = versionId
    THEN CHOOSE i \in DOMAIN versions : versions[i].id = versionId
    ELSE -1

\* variant: the oldest version takes the latest one as its previous version
previousVersionIdWrapping ==
    IF currentVersionIndex < 0 THEN NullStr
    ELSE IF currentVersionIndex + 1 \in DOMAIN versions
         THEN versions[currentVersionIndex + 1].id
         ELSE versions[1].id

previousVersionId ==
    IF currentVersionIndex < 0 THEN NullStr
    ELSE IF currentVersionIndex + 1 \in DOMAIN versions
         THEN versions[currentVersionIndex + 1].id
         ELSE NullStr

\* all annotation ids present in some bucket
StoredIds ==
    UNION { { annotationsByVersion[v][i].id : i \in DOMAIN annotationsByVersion[v] }
            : v \in DOMAIN annotationsByVersion }

\* ids of the annotations of the version on display
CurrentIds == { currentAnnotations[i].id : i \in DOMAIN currentAnnotations }

\* an id no annotation has
StaleId == 999

\* an id that is not in the bucket of the version on display: the id of an
\* annotation of another bucket when there is one, a stale id otherwise
OtherId ==
    IF StoredIds \ CurrentIds = {} THEN StaleId
    ELSE CHOOSE id \in StoredIds \ CurrentIds :
            \A j \in StoredIds \ CurrentIds : id <= j

\* ids a handler can be called with
IdArgs == CurrentIds \cup {OtherId}

(***************************************************************************)
(* JSON text: JSON.stringify / JSON.parse                                  *)
(***************************************************************************)
J_undefined == [t |-> "undefined"]
J_null == [t |-> "null"]
J_str(s) == [t |-> "str", v |-> s]
J_num(n) == [t |-> "num", v |-> n]
J_obj(o) == [t |-> "obj", v |-> o]
J_arr(a) == [t |-> "arr", v |-> a]

\* keys whose values are numbers, and keys whose values are a string or null
NumberKeys == {"start", "end", "count"}
NullableKeys == {"assigneeId", "toUserId"}

\* variant: null is written as the empty string
JsonOfScalarNoNull(k, v) ==
    CASE k \in NumberKeys -> J_num(v)
      [] k \in NullableKeys /\ v = NullStr -> J_str("")
      [] OTHER -> J_str(v)

\* JSON.stringify of a string, number or null held under key k
JsonOfScalar(k, v) ==
    CASE k \in NumberKeys -> J_num(v)
      [] k \in NullableKeys /\ v = NullStr -> J_null
      [] OTHER -> J_str(v)

\* ... of the value under key k of an annotation or an activity item
JsonOfValue(k, v) ==
    IF k \in {"anchor", "meta"}
    THEN J_obj([f \in DOMAIN v |-> JsonOfScalar(f, v[f])])
    ELSE JsonOfScalar(k, v)

\* ... of a list of annotations or of activity items
JsonOfList(list) ==
    J_arr([i \in DOMAIN list |->
              J_obj([k \in DOMAIN list[i] |-> JsonOfValue(k, list[i][k])])])

\* ... of one property of the export payload
JsonOfProp(k, v) ==
    CASE k = "annotationsByVersion" -> J_obj([b \in DOMAIN v |-> JsonOfList(v[b])])
      [] k = "activity" -> JsonOfList(v)
      [] OTHER -> J_str(v)

\* JSON.stringify(payload): the text of a file, held as the JSON value it
\* denotes (no value of the state is undefined, so no property is dropped)
JsonStringify(payload) ==
    [ok |-> TRUE,
     json |-> J_obj([k \in DOMAIN payload |-> JsonOfProp(k, payload[k])])]

\* a file whose text is not JSON
MalformedFile == [ok |-> FALSE, json |-> J_undefined]

\* JSON.parse(text) throws on a text that is not JSON
ParseThrows(text) == ~ text.ok
JsonParse(text) == text.json

\* parsed.k: undefined when the key is absent
Prop(parsed, k) ==
    IF parsed.t = "obj" /\ k \in DOMAIN parsed.v THEN parsed.v[k] ELSE J_undefined

\* the JavaScript value JSON.parse builds for a JSON value
RECURSIVE JsValue(_)
JsValue(j) ==
    CASE j.t = "null" -> NullStr
      [] j.t \in {"str", "num"} -> j.v
      [] j.t \in {"obj", "arr"} -> [k \in DOMAIN j.v |-> JsValue(j.v[k])]

\* !value in JavaScript: objects and arrays, also empty ones, are truthy
Falsy(j) ==
    \/ j.t \in {"undefined", "null"}
    \/ (j.t = "str" /\ j.v = "")

SchemaTag == "review-mini-v1"

(***************************************************************************)
(* Files the user can pick for import besides an own export                *)
(***************************************************************************)
ForeignAnn(id, v, status, anchor, quote) ==
    [id |-> id, docId |-> DocId, versionId |-> v, quote |-> quote,
     category |-> "LegalRisk", severity |-> "Low", status |-> status,
     assigneeId |-> "u3", comment |-> "x", anchor |-> anchor,
     createdAt |-> 0, updatedAt |-> 0]

\* a snapshot with 2 Open and 1 Resolved annotation in v1 and one annotation,
\* carried over earlier, in v2; on display: v2
SeedPayload ==
    [schema |-> SchemaTag, exportedAt |-> 0, docId |-> DocId, versionId |-> "v2",
     annotationsByVersion |->
        [v1 |-> << ForeignAnn(101, "v1", "Open", TextRangeAnchor("s1", 0, 5), "This "),
                   ForeignAnn(102, "v1", "Resolved", TextRangeAnchor("s1", 3, 8), "s Agr"),
                   ForeignAnn(103, "v1", "Open", TextRangeAnchor("s2", 1, 2), "h") >>,
         v2 |-> << ForeignAnn(104, "v2", "NeedsRemap",
                              UnanchoredAnchor("UserNeedsRemap"), "gone") >>],
     activity |->
        << ActivityItem(201, 0, "VERSION_SWITCHED", [toVersionId |-> "v2"]) >>]

\* a time later than every reading of the clock of this session (a snapshot
\* written where the clock is ahead)
AheadOfClock == MaxIds + 5

\* a hand-written snapshot without versionId: in the bucket of v1 an annotation
\* that waits for a remap on an empty text range and names v2 as its version,
\* in the bucket of v2 an
\* Open annotation that has no text anchor and was created at a time ahead of
\* the clock
HandWrittenPayload ==
    [schema |-> SchemaTag,
     annotationsByVersion |->
        [v1 |-> << ForeignAnn(111, "v2", "NeedsRemap",
                              TextRangeAnchor("s1", 5, 5), "gone") >>,
         v2 |-> << [ForeignAnn(112, "v2", "Open",
                               UnanchoredAnchor("NotFoundInVersion"), "lost")
                       EXCEPT !.createdAt = AheadOfClock,
                              !.updatedAt = AheadOfClock] >>],
     activity |-> <<>>]

\* a snapshot taken on v2 when the only annotation of v1 was resolved and v2
\* had none yet
ResolvedOnlyPayload ==
    [schema |-> SchemaTag, exportedAt |-> 0, docId |-> DocId, versionId |-> "v2",
     annotationsByVersion |->
        [v1 |-> << ForeignAnn(121, "v1", "Resolved", TextRangeAnchor("s1", 0, 5),
                              "This ") >>],
     activity |-> <<>>]

\* a snapshot of another document, taken while its third version was on
\* display; its buckets are empty
ElsewherePayload ==
    [schema |-> SchemaTag, exportedAt |-> 0, docId |-> "elsewhere",
     versionId |-> "v3", annotationsByVersion |-> << >>, activity |-> << >>]

WrongSchemaFile ==
    JsonStringify([SeedPayload EXCEPT !.schema = "review-mini-v2"])

NoActivityFile ==
    JsonStringify([k \in (DOMAIN SeedPayload) \ {"activity"} |-> SeedPayload[k]])

NoAnnotationsFile ==
    JsonStringify([k \in (DOMAIN SeedPayload) \ {"annotationsByVersion"} |-> SeedPayload[k]])

RejectedFiles == {MalformedFile, WrongSchemaFile, NoActivityFile, NoAnnotationsFile}

SeedFile == JsonStringify(SeedPayload)
HandWrittenFile == JsonStringify(HandWrittenPayload)
ResolvedOnlyFile == JsonStringify(ResolvedOnlyPayload)
ElsewhereFile == JsonStringify(ElsewherePayload)

ForeignFiles ==
    RejectedFiles \cup {SeedFile, HandWrittenFile, ResolvedOnlyFile}

\* no export has been written yet
NoFile == [ok |-> FALSE, json |-> [t |-> "none"]]

\* the state an export was taken from, before the first export
NoExport ==
    [versionId |-> NullStr, annotationsByVersion |-> << >>, activity |-> << >>]

(***************************************************************************)
(* Initial state: ReviewClient mounted on the latest version               *)
(***************************************************************************)
StoreInit ==
    /\ versionId = initialVersionId
    /\ annotationsByVersion = << >>
    /\ activity = << ActivityItem(1, 0, "VERSION_SWITCHED",
                                  [toVersionId |-> initialVersionId]) >>
    /\ selectedAnnotationId = NullId
    /\ selectionDraft = NoDraft
    /\ showModal = FALSE
    /\ remapTargetId = NullId
    /\ idCounter = 1
    /\ exportedFile = NoFile
    /\ exportedFrom = NoExport
    /\ pendingReads = << >>

RenderIdle ==
    /\ rText = << >>
    /\ rHighlights = << >>
    /\ rParts = << >>
    /\ rPhase = "idle"
    /\ rSelection = NoSelection

\* the mode is read from the URL when the component mounts
Init ==
    /\ StoreInit
    /\ mode \in {"editor", "viewer"}
    /\ RenderIdle
    /\ idLimit = MaxIds

(***************************************************************************)
(* Environment                                                             *)
(***************************************************************************)
\* genId: the k-th fresh id from now on
genId(k) == idCounter + k

CanGen(k) == idCounter + k <= idLimit

\* nowIso: the clock is logical, it reads the number of ids handed out so far,
\* so it never runs backwards and every mutation happens at a time of its own
nowIso == idCounter

\* variant: the record is put at the end of the log
addActivityAtTail(item) == activity' = activity \o <<item>>

\* addActivity: setActivity((prev) => [item, ...prev])
addActivity(item) == activity' = <<item>> \o activity

\* clearSelectionUI
clearSelectionUI ==
    /\ selectionDraft' = NoDraft
    /\ showModal' = FALSE

(***************************************************************************)
(* Selection and the create dialog                                         *)
(***************************************************************************)
\* the body of handleMouseUp; draft is what getSelectionDraft returns for the
\* selection (NoDraft for null)
setDraftOnMouseUp(draft) ==
    IF isReadOnly
    THEN UNCHANGED selectionDraft
    ELSE selectionDraft' = draft

\* handleMouseUp with the selection left out: the draft is an input
handleMouseUp(draft) ==
    /\ setDraftOnMouseUp(draft)
    /\ UNCHANGED <<renderVars, storeVars, selectedAnnotationId,
                   showModal, remapTargetId, mode, envVars>>

openCreateModal ==
    /\ IF isReadOnly \/ selectionDraft = NoDraft
       THEN UNCHANGED <<remapTargetId, showModal>>
       ELSE /\ remapTargetId' = NullId
            /\ showModal' = TRUE
    /\ UNCHANGED <<renderVars, storeVars, selectedAnnotationId,
                   selectionDraft, mode, envVars>>

\* the Cancel buttons of the selection popover and of the create dialog
cancelSelection ==
    /\ clearSelectionUI
    /\ UNCHANGED <<renderVars, storeVars, selectedAnnotationId,
                   remapTargetId, mode, envVars>>

\* variant: the new annotation starts out resolved
NewAnnotationResolved(id, draft, form) ==
    [id |-> id, docId |-> DocId, versionId |-> versionId, quote |-> draft.quote,
     category |-> form.category, severity |-> form.severity, status |-> "Resolved",
     assigneeId |-> IF form.assigneeId # "" THEN form.assigneeId ELSE NullStr,
     comment |-> Trim(form.comment),
     anchor |-> TextRangeAnchor(draft.sectionId, draft.startLocal, draft.endLocal),
     createdAt |-> nowIso, updatedAt |-> nowIso]

\* newAnn; form holds category, severity, assigneeId and comment, the fields of
\* the create dialog (they are read nowhere else, so they are an input here)
NewAnnotation(id, draft, form) ==
    [id |-> id, docId |-> DocId, versionId |-> versionId, quote |-> draft.quote,
     category |-> form.category, severity |-> form.severity, status |-> "Open",
     assigneeId |-> IF form.assigneeId # "" THEN form.assigneeId ELSE NullStr,
     comment |-> Trim(form.comment),
     anchor |-> TextRangeAnchor(draft.sectionId, draft.startLocal, draft.endLocal),
     createdAt |-> nowIso, updatedAt |-> nowIso]

createAnnotation(form) ==
    /\ IF isReadOnly \/ selectionDraft = NoDraft
       THEN /\ UNCHANGED <<storeVars, selectedAnnotationId, selectionDraft,
                           showModal, idCounter>>
       ELSE /\ CanGen(2)
            /\ annotationsByVersion' =
                  PutBucket(annotationsByVersion, versionId,
                            <<NewAnnotation(genId(1), selectionDraft, form)>>
                                \o currentAnnotations)
            /\ addActivity(ActivityItem(genId(2), nowIso, "ANNOTATION_CREATED",
                  [annotationId |-> genId(1), quote |-> selectionDraft.quote,
                   category |-> form.category, severity |-> form.severity]))
            /\ selectedAnnotationId' = genId(1)
            /\ clearSelectionUI
            /\ idCounter' = idCounter + 2
            /\ UNCHANGED versionId
    /\ UNCHANGED <<renderVars, remapTargetId, mode, exportedFile, exportedFrom, pendingReads, idLimit>>

(***************************************************************************)
(* Store mutations on existing annotations                                 *)
(***************************************************************************)
\* list.map((a) => (a.id === id ? { ...a, ... } : a)); updated[i] is the
\* object the arrow function builds for list[i]
MapById(list, id, updated) ==
    [i \in DOMAIN list |-> IF list[i].id = id THEN updated[i] ELSE list[i]]

\* variant: no early return
ToggleNeverBlocked(ann) == FALSE

\* toggleResolved returns early on an annotation that waits for a remap
ToggleBlocked(ann) == ann.status = "NeedsRemap"

\* variant: a toggle always resolves
AlwaysResolved(ann) == "Resolved"

\* nextStatus
NextStatus(ann) == IF ann.status = "Resolved" THEN "Open" ELSE "Resolved"

\* the body of toggleResolved(id)
toggleResolved(id) ==
    LET idx == FindIdx(currentAnnotations, id) IN
    IF isReadOnly \/ idx = 0 \/ ToggleBlocked(currentAnnotations[idx])
    THEN UNCHANGED <<storeVars, idCounter>>
    ELSE LET ann == currentAnnotations[idx]
             nextStatus == NextStatus(ann)
             Upd(a) == [a EXCEPT !.status = nextStatus, !.updatedAt = nowIso]
         IN  /\ CanGen(1)
             /\ annotationsByVersion' =
                   PutBucket(annotationsByVersion, versionId,
                             MapById(currentAnnotations, id,
                                     [i \in DOMAIN currentAnnotations |->
                                         Upd(currentAnnotations[i])]))
             /\ addActivity(ActivityItem(genId(1), nowIso,
                   IF nextStatus = "Resolved" THEN "ANNOTATION_RESOLVED"
                                              ELSE "ANNOTATION_REOPENED",
                   [annotationId |-> id, quote |-> ann.quote]))
             /\ idCounter' = idCounter + 1
             /\ UNCHANGED versionId

\* the Resolve / Reopen button
toggleResolvedClick(id) ==
    /\ toggleResolved(id)
    /\ UNCHANGED <<renderVars, uiVars, exportedFile, exportedFrom, pendingReads, idLimit>>

\* onKeyDown, key === "Enter" outside an input; onIssuesTab tells whether the
\* Issues tab is the active one (the tab strip is not part of the model)
keyEnter(onIssuesTab) ==
    LET idx == FindIdx(currentAnnotations, selectedAnnotationId) IN
    /\ IF ~ isReadOnly /\ onIssuesTab /\ selectedAnnotationId # NullId
            /\ idx # 0 /\ currentAnnotations[idx].status # "NeedsRemap"
       THEN toggleResolved(selectedAnnotationId)
       ELSE UNCHANGED <<storeVars, idCounter>>
    /\ UNCHANGED <<renderVars, uiVars, exportedFile, exportedFrom, pendingReads, idLimit>>

\* variant: the assignee change reopens the annotation
ReassignedAnnReopened(a, toUserId) ==
    [a EXCEPT !.assigneeId = toUserId, !.status = "Open", !.updatedAt = nowIso]

\* { ...a, assigneeId: toUserId, updatedAt: nowIso() }
ReassignedAnn(a, toUserId) ==
    [a EXCEPT !.assigneeId = toUserId, !.updatedAt = nowIso]

changeAssignee(id, toUserId) ==
    LET idx == FindIdx(currentAnnotations, id) IN
    /\ IF isReadOnly \/ idx = 0
       THEN UNCHANGED <<storeVars, idCounter>>
       ELSE LET ann == currentAnnotations[idx]
                Upd(a) == ReassignedAnn(a, toUserId)
            IN  /\ CanGen(1)
                /\ annotationsByVersion' =
                      PutBucket(annotationsByVersion, versionId,
                                MapById(currentAnnotations, id,
                                     [i \in DOMAIN currentAnnotations |->
                                         Upd(currentAnnotations[i])]))
                /\ addActivity(ActivityItem(genId(1), nowIso, "ASSIGNEE_CHANGED",
                      [annotationId |-> id, quote |-> ann.quote,
                       toUserId |-> toUserId]))
                /\ idCounter' = idCounter + 1
                /\ UNCHANGED versionId
    /\ UNCHANGED <<renderVars, uiVars, exportedFile, exportedFrom, pendingReads, idLimit>>

(***************************************************************************)
(* Selecting an annotation, tabs, mode                                     *)
(***************************************************************************)
\* a click on an issue of the list or on a highlight (handleClickHighlight),
\* or on Close (id = NullId)
setSelectedAnnotationId(id) ==
    /\ selectedAnnotationId' = id
    /\ UNCHANGED <<renderVars, storeVars, selectionDraft, showModal,
                   remapTargetId, mode, envVars>>

\* the Role select
setMode(m) ==
    /\ mode' = m
    /\ showModal' = FALSE
    /\ remapTargetId' = NullId
    /\ selectionDraft' = NoDraft
    /\ UNCHANGED <<renderVars, storeVars, selectedAnnotationId,
                   envVars>>

\* variant: the record names the version that was on display
SwitchedRecordNamingOld(next) ==
    ActivityItem(genId(1), nowIso, "VERSION_SWITCHED", [toVersionId |-> versionId])

\* the record the Version select logs
SwitchedRecord(next) ==
    ActivityItem(genId(1), nowIso, "VERSION_SWITCHED", [toVersionId |-> next])

\* the Version select
switchVersion(next) ==
    /\ CanGen(1)
    /\ versionId' = next
    /\ selectedAnnotationId' = NullId
    /\ selectionDraft' = NoDraft
    /\ showModal' = FALSE
    /\ remapTargetId' = NullId
    /\ addActivity(SwitchedRecord(next))
    /\ idCounter' = idCounter + 1
    /\ UNCHANGED <<renderVars, annotationsByVersion, mode, exportedFile, exportedFrom, pendingReads, idLimit>>

(***************************************************************************)
(* Remap workflow                                                          *)
(***************************************************************************)
startRemap(id) ==
    /\ IF isReadOnly
       THEN UNCHANGED remapTargetId
       ELSE remapTargetId' = id
    /\ UNCHANGED <<renderVars, storeVars, selectedAnnotationId, selectionDraft,
                   showModal, mode, envVars>>

\* variant: the target outlives the cancel
keepRemapTarget == UNCHANGED remapTargetId

\* cancelRemap
cancelRemap == remapTargetId' = NullId

\* the Cancel button shown while a remap target is set
cancelRemapClick ==
    /\ cancelRemap
    /\ clearSelectionUI
    /\ UNCHANGED <<renderVars, storeVars, selectedAnnotationId,
                   mode, envVars>>

\* closeAllOverlays, run by Escape
closeAllOverlays ==
    /\ showModal' = FALSE
    /\ remapTargetId' = NullId
    /\ selectionDraft' = NoDraft
    /\ UNCHANGED <<renderVars, storeVars, selectedAnnotationId,
                   mode, envVars>>

\* variant: the status is kept
RemappedAnnKeepingStatus(a, draft) ==
    [a EXCEPT !.quote = draft.quote,
              !.anchor = TextRangeAnchor(draft.sectionId, draft.startLocal,
                                         draft.endLocal),
              !.updatedAt = nowIso]

\* variant: the remap stamps createdAt as well
RemappedAnnRecreated(a, draft) ==
    [a EXCEPT !.status = "Open",
              !.quote = draft.quote,
              !.anchor = TextRangeAnchor(draft.sectionId, draft.startLocal,
                                         draft.endLocal),
              !.createdAt = nowIso,
              !.updatedAt = nowIso]

\* the annotation the remap writes in place of a
RemappedAnn(a, draft) ==
    [a EXCEPT !.status = "Open",
              !.quote = draft.quote,
              !.anchor = TextRangeAnchor(draft.sectionId, draft.startLocal,
                                         draft.endLocal),
              !.updatedAt = nowIso]

\* variant: the record carries the quote of the draft
RemappedMetaOfDraft(ann, draft) ==
    [annotationId |-> remapTargetId, quote |-> draft.quote]

\* meta of the record a remap logs; ann is the target as found before the
\* remap
RemappedMeta(ann, draft) ==
    [annotationId |-> remapTargetId, quote |-> ann.quote]

remapIssue ==
    LET idx == FindIdx(currentAnnotations, remapTargetId) IN
    /\ IF isReadOnly \/ remapTargetId = NullId \/ selectionDraft = NoDraft
            \/ idx = 0
       THEN /\ UNCHANGED <<storeVars, idCounter, selectedAnnotationId,
                           remapTargetId, selectionDraft, showModal>>
       ELSE LET ann == currentAnnotations[idx]
                Upd(a) == RemappedAnn(a, selectionDraft)
            IN  /\ CanGen(1)
                /\ annotationsByVersion' =
                      PutBucket(annotationsByVersion, versionId,
                                MapById(currentAnnotations, remapTargetId,
                                        [i \in DOMAIN currentAnnotations |->
                                            Upd(currentAnnotations[i])]))
                /\ addActivity(ActivityItem(genId(1), nowIso, "ANNOTATION_REMAPPED",
                      RemappedMeta(ann, selectionDraft)))
                /\ selectedAnnotationId' = remapTargetId
                /\ remapTargetId' = NullId
                /\ clearSelectionUI
                /\ idCounter' = idCounter + 1
                /\ UNCHANGED versionId
    /\ UNCHANGED <<renderVars, mode, exportedFile, exportedFrom, pendingReads, idLimit>>

(***************************************************************************)
(* Version carry-over                                                      *)
(***************************************************************************)
\* variant: the filter is turned around
CarriesResolved(a) == a.status = "Resolved"

\* prevAnns.filter((a) => a.status !== "Resolved")
Carries(a) == a.status # "Resolved"

\* variant: the batch is built back to front
ToCarryReversed(prevAnns) ==
    LET kept == SelectSeq(prevAnns, Carries)
    IN  [i \in 1..Len(kept) |-> kept[Len(kept) + 1 - i]]

\* variant: an annotation of which the current bucket holds a copy that still
\* waits for its remap is not carried again
ToCarryOnce(prevAnns) ==
    SelectSeq(prevAnns,
              LAMBDA a : /\ Carries(a)
                         /\ \A i \in DOMAIN currentAnnotations :
                               ~ (/\ currentAnnotations[i].quote = a.quote
                                  /\ currentAnnotations[i].anchor
                                        = UnanchoredAnchor("UserNeedsRemap")))

ToCarry(prevAnns) == SelectSeq(prevAnns, Carries)

\* the copy of a made for the current version
CarriedAnn(a, id) ==
    [a EXCEPT !.id = id,
              !.versionId = versionId,
              !.status = "NeedsRemap",
              !.anchor = UnanchoredAnchor("UserNeedsRemap"),
              !.createdAt = nowIso,
              !.updatedAt = nowIso]

carryOverFromPrevious ==
    LET prevAnns == Bucket(annotationsByVersion, previousVersionId)
        toCarry  == ToCarry(prevAnns)
        n        == Len(toCarry)
        carried  == [i \in 1..n |-> CarriedAnn(toCarry[i], genId(i))]
    IN
    /\ IF isReadOnly \/ previousVersionId = NullStr \/ n = 0
       THEN /\ UNCHANGED <<storeVars, idCounter>>
       ELSE /\ CanGen(n + 1)
            /\ annotationsByVersion' =
                  PutBucket(annotationsByVersion, versionId,
                            carried \o currentAnnotations)
            /\ addActivity(ActivityItem(genId(n + 1), nowIso,
                  "ANNOTATIONS_CARRIED_OVER",
                  [fromVersionId |-> previousVersionId, toVersionId |-> versionId,
                   count |-> n]))
            /\ idCounter' = idCounter + n + 1
            /\ UNCHANGED versionId
    /\ UNCHANGED <<renderVars, uiVars, exportedFile, exportedFrom, pendingReads, idLimit>>

(***************************************************************************)
(* Export and import                                                       *)
(***************************************************************************)
\* the payload exportJson builds
ExportPayload ==
    [schema |-> SchemaTag, exportedAt |-> nowIso, docId |-> DocId,
     versionId |-> versionId, annotationsByVersion |-> annotationsByVersion,
     activity |-> activity]

exportJson ==
    /\ exportedFile' = JsonStringify(ExportPayload)
    /\ exportedFrom' = [versionId |-> versionId,
                        annotationsByVersion |-> annotationsByVersion,
                        activity |-> activity]
    /\ UNCHANGED <<renderVars, storeVars, uiVars, idCounter, pendingReads, idLimit>>

\* variant: the schema is not looked at
ImportRejectsUnlessTagged(parsed) ==
    \/ Falsy(Prop(parsed, "annotationsByVersion"))
    \/ Falsy(Prop(parsed, "activity"))

\* the two early returns of importJsonFile after JSON.parse
ImportRejects(parsed) ==
    \/ ~ (Prop(parsed, "schema").t = "str" /\ Prop(parsed, "schema").v = SchemaTag)
    \/ Falsy(Prop(parsed, "annotationsByVersion"))
    \/ Falsy(Prop(parsed, "activity"))

\* the file is one importJsonFile takes over
ImportAccepts(text) ==
    /\ ~ ParseThrows(text)
    /\ ~ ImportRejects(JsonParse(text))

\* variant: the imported buckets are merged into the present ones
MergedBuckets(abv, imported) ==
    [k \in (DOMAIN abv) \cup (DOMAIN imported) |->
        Bucket(imported, k) \o Bucket(abv, k)]

\* setAnnotationsByVersion(imported): the buckets after an import
ImportedBuckets(abv, imported) == imported

\* importJsonFile(file): the file is read and, when it is taken over, the
\* state is replaced by its content
\* importJsonFile from the moment file.text() has resolved with text: the
\* parse, the two checks and the setters
takeOver(text) ==
    IF ~ ImportAccepts(text)
    THEN UNCHANGED <<storeVars, selectedAnnotationId, remapTargetId,
                     selectionDraft, showModal>>
    ELSE LET parsed == JsonParse(text) IN
         /\ selectedAnnotationId' = NullId
         /\ remapTargetId' = NullId
         /\ clearSelectionUI
         /\ IF Prop(parsed, "versionId").t = "str"
            THEN versionId' = Prop(parsed, "versionId").v
            ELSE UNCHANGED versionId
         /\ activity' = JsValue(Prop(parsed, "activity"))
         /\ annotationsByVersion' =
               ImportedBuckets(annotationsByVersion,
                               JsValue(Prop(parsed, "annotationsByVersion")))

\* importJsonFile(file) when the read resolves before anything else happens
importJsonFile(text) ==
    /\ takeOver(text)
    /\ UNCHANGED <<renderVars, mode, envVars>>

\* number of file reads that may be pending at once
MaxPending == 2

\* onChange of the file input: importJsonFile(file) runs up to await
\* file.text(); the read is pending and no state has been set
importStart(text) ==
    /\ Len(pendingReads) < MaxPending
    /\ pendingReads' = Append(pendingReads, [file |-> text, startedAt |-> nowIso])
    /\ UNCHANGED <<renderVars, storeVars, uiVars, idCounter, exportedFile,
                   exportedFrom, idLimit>>

\* the i-th pending read resolves and importJsonFile runs to its end
importResolve(i) ==
    /\ i \in DOMAIN pendingReads
    /\ takeOver(pendingReads[i].file)
    /\ pendingReads' = [j \in 1..(Len(pendingReads) - 1) |->
                            IF j < i THEN pendingReads[j] ELSE pendingReads[j + 1]]
    /\ UNCHANGED <<renderVars, mode, idCounter, exportedFile, exportedFrom, idLimit>>

(***************************************************************************)
(* Document viewer: the spans handed to the renderer                       *)
(***************************************************************************)
\* the sections of each version of the document and the number of paragraphs
\* of each
DocContent ==
    [v1 |-> << [id |-> "s1", paragraphs |-> 2], [id |-> "s2", paragraphs |-> 2],
               [id |-> "s3", paragraphs |-> 2], [id |-> "s4", paragraphs |-> 2] >>,
     v2 |-> << [id |-> "s1", paragraphs |-> 2], [id |-> "s2", paragraphs |-> 2],
               [id |-> "s3", paragraphs |-> 2], [id |-> "s4", paragraphs |-> 2],
               [id |-> "s5", paragraphs |-> 1] >>]

\* currentContent?.sections ?? content.sections: a version id without content
\* shows the content the page was loaded with, that of the initial version
currentSections ==
    IF versionId \in DOMAIN DocContent
    THEN DocContent[versionId]
    ELSE DocContent[initialVersionId]

\* variant: the section of the anchor is not looked at
ContributesSpanAnySection(ann, s) == isTextRangeAnchor(ann.anchor)

\* the two continue statements of the loop over currentAnnotations
ContributesSpan(ann, s) ==
    /\ isTextRangeAnchor(ann.anchor)
    /\ ann.anchor.sectionId = s.id

\* paragraphHighlights as built for paragraph idx of section s
paragraphHighlights(s, idx) ==
    LET kept == SelectSeq(currentAnnotations, LAMBDA ann : ContributesSpan(ann, s))
    IN  [i \in 1..Len(kept) |->
            [id |-> kept[i].id, start |-> kept[i].anchor.start,
             end |-> kept[i].anchor.end, status |-> kept[i].status]]

(***************************************************************************)
(* Specification of the review workspace                                   *)
(***************************************************************************)
Next ==
    \/ \E d \in Drafts \cup {NoDraft} : handleMouseUp(d)
    \/ openCreateModal
    \/ cancelSelection
    \/ \E form \in DialogInputs : createAnnotation(form)
    \/ \E id \in IdArgs : toggleResolvedClick(id)
    \/ \E onIssuesTab \in BOOLEAN : keyEnter(onIssuesTab)
    \/ \E id \in IdArgs, u \in UserIds \cup {NullStr} : changeAssignee(id, u)
    \/ \E id \in CurrentIds \cup {NullId} : setSelectedAnnotationId(id)
    \/ \E m \in {"editor", "viewer"} : setMode(m)
    \/ \E v \in VersionIds : switchVersion(v)
    \/ \E id \in IdArgs : startRemap(id)
    \/ cancelRemapClick
    \/ closeAllOverlays
    \/ remapIssue
    \/ carryOverFromPrevious
    \/ \E f \in ForeignFiles : importJsonFile(f)

Spec == Init /\ [][Next]_vars

(***************************************************************************)
(* Specification of the workspace as the interface offers it: startRemap   *)
(* is called by the Start remap button only                                *)
(***************************************************************************)
\* variant: the button is shown for every selected annotation
RemapOfferedAlways(ann) == TRUE

\* selectedAnnotation.status === "NeedsRemap" ? <Start remap> : <Close>
RemapOffered(ann) == ann.status = "NeedsRemap"

\* the Start remap button of the details of the selected annotation;
\* selectedAnnotation is looked up in the current bucket
startRemapClick ==
    LET idx == FindIdx(currentAnnotations, selectedAnnotationId) IN
    /\ selectedAnnotationId # NullId
    /\ idx # 0
    /\ RemapOffered(currentAnnotations[idx])
    /\ startRemap(currentAnnotations[idx].id)

NextUI ==
    \/ \E d \in Drafts \cup {NoDraft} : handleMouseUp(d)
    \/ openCreateModal
    \/ cancelSelection
    \/ \E form \in DialogInputs : createAnnotation(form)
    \/ \E id \in IdArgs : toggleResolvedClick(id)
    \/ \E onIssuesTab \in BOOLEAN : keyEnter(onIssuesTab)
    \/ \E id \in IdArgs, u \in UserIds \cup {NullStr} : changeAssignee(id, u)
    \/ \E id \in CurrentIds \cup {NullId} : setSelectedAnnotationId(id)
    \/ \E m \in {"editor", "viewer"} : setMode(m)
    \/ \E v \in VersionIds : switchVersion(v)
    \/ startRemapClick
    \/ cancelRemapClick
    \/ closeAllOverlays
    \/ remapIssue
    \/ carryOverFromPrevious
    \/ \E f \in ForeignFiles : importJsonFile(f)

SpecUI == Init /\ [][NextUI]_vars

(***************************************************************************)
(* Specification of repeated carry-over: the store handlers with ids       *)
(* enough for carrying the same annotations over several times             *)
(***************************************************************************)
\* number of ids genId hands out where carry-over is repeated
MaxCarryIds == 7

InitCarry ==
    /\ StoreInit
    /\ mode \in {"editor", "viewer"}
    /\ RenderIdle
    /\ idLimit = MaxCarryIds

NextCarry ==
    \/ \E id \in IdArgs : toggleResolvedClick(id)
    \/ \E v \in VersionIds : switchVersion(v)
    \/ carryOverFromPrevious
    \/ \E f \in {SeedFile, HandWrittenFile} : importJsonFile(f)

SpecCarry == InitCarry /\ [][NextCarry]_vars

(***************************************************************************)
(* Specification of the transfer: the store handlers, Export JSON and the  *)
(* import of the file it wrote.  exportJson changes no component state, so *)
(* the workspace above leaves it out; here the file it writes is followed. *)
(***************************************************************************)
\* the files on offer to the file input: the download and the snapshots
TransferFiles ==
    ForeignFiles \cup (IF exportedFile = NoFile THEN {} ELSE {exportedFile})

NextTransfer ==
    \/ \E d \in Drafts : handleMouseUp(d)
    \/ \E form \in DialogInputs : createAnnotation(form)
    \/ \E id \in IdArgs : toggleResolvedClick(id)
    \/ \E id \in IdArgs, u \in UserIds \cup {NullStr} : changeAssignee(id, u)
    \/ \E v \in VersionIds : switchVersion(v)
    \/ carryOverFromPrevious
    \/ exportJson
    \/ \E f \in TransferFiles : importJsonFile(f)

SpecTransfer == Init /\ [][NextTransfer]_vars

(***************************************************************************)
(* Specification of the import with its file read: the read is started by  *)
(* the file input and resolves later, other handlers run in between.       *)
(***************************************************************************)
\* the files picked in the file input
PickedFiles == {SeedFile, HandWrittenFile, MalformedFile, ElsewhereFile}

NextImport ==
    \/ \E d \in Drafts : handleMouseUp(d)
    \/ \E form \in DialogInputs : createAnnotation(form)
    \/ \E id \in IdArgs : toggleResolvedClick(id)
    \/ \E v \in VersionIds : switchVersion(v)
    \/ \E f \in PickedFiles : importStart(f)
    \/ \E i \in 1..MaxPending : importResolve(i)

SpecImport == Init /\ [][NextImport]_vars

(***************************************************************************)
(* Inputs of the renderer                                                  *)
(***************************************************************************)
Alphabet == <<"a", "b", "c", "d", "e", "f", "g", "h", "i", "j", "k", "l">>

\* a paragraph of n pairwise different characters
TextOfLen(n) == SubSeq(Alphabet, 1, n)

\* span offsets reach one position outside the text on either side
Offsets == -1 .. (MaxLen + 1)

\* the status shown by the highlight with a given id
StatusOfSpan(id) == IF id % 2 = 1 THEN "Open" ELSE "Resolved"

SpanSeqs ==
    UNION { { [i \in 1..n |-> [id |-> i, start |-> f[i][1], end |-> f[i][2],
                               status |-> StatusOfSpan(i)]]
              : f \in [1..n -> Offsets \X Offsets] }
            : n \in 0..MaxSpans }

\* the scenario of the testable properties: spans [0,5) and [3,8)
ScenarioText == TextOfLen(10)
ScenarioSpans ==
    << [id |-> 1, start |-> 0, end |-> 5, status |-> "Open"],
       [id |-> 2, start |-> 3, end |-> 8, status |-> "Open"] >>

\* a paragraph with blanks, rendered without highlight
SpacedText == <<"a", " ", " ", "b">>

InitRender ==
    /\ \/ rText = TextOfLen(MaxLen) /\ rHighlights \in SpanSeqs
       \/ rText = ScenarioText /\ rHighlights = ScenarioSpans
       \/ rText = SpacedText /\ rHighlights = <<>>
    /\ rParts = <<>>
    /\ rPhase = "input"
    /\ rSelection = NoSelection
    /\ StoreInit
    /\ mode = "editor"
    /\ idLimit = MaxIds

Render ==
    /\ rPhase = "input"
    /\ rParts' = renderHighlightedParagraph(rText, rHighlights)
    /\ rPhase' = "done"
    /\ UNCHANGED <<rText, rHighlights, rSelection, storeVars, uiVars, envVars>>

\* the text of a sequence of text nodes
RECURSIVE ConcatValues(_)
ConcatValues(parts) ==
    IF parts = <<>> THEN <<>> ELSE Head(parts).value \o ConcatValues(Tail(parts))

\* the characters of the text nodes of parts from node n1, offset o1, up to
\* node n2, offset o2
TextBetween(parts, n1, o1, n2, o2) ==
    IF n1 = n2
    THEN SubSeq(parts[n1].value, o1 + 1, o2)
    ELSE SubSeq(parts[n1].value, o1 + 1, Len(parts[n1].value))
            \o ConcatValues(SubSeq(parts, n1 + 1, n2 - 1))
            \o SubSeq(parts[n2].value, 1, o2)

\* the selection the browser reports when the user has selected, in the first
\* paragraph of section s1, from offset o1 of text node n1 to offset o2 of
\* text node n2
SelectionIn(parts, n1, o1, n2, o2) ==
    [present |-> TRUE, isCollapsed |-> (n1 = n2 /\ o1 = o2), rectEmpty |-> FALSE,
     inViewer |-> TRUE, text |-> TextBetween(parts, n1, o1, n2, o2),
     startPara |-> "s1/0", endPara |-> "s1/0",
     sectionId |-> "s1", paraIndexStr |-> "0",
     startNode |-> n1, startOffset |-> o1, endNode |-> n2, endOffset |-> o2]

\* every range inside the paragraph: its start is not behind its end
ParagraphSelections(parts) ==
    { SelectionIn(parts, n1, o1, n2, o2) :
        <<n1, o1, n2, o2>> \in
           { q \in (DOMAIN parts) \X (0..MaxLen) \X (DOMAIN parts) \X (0..MaxLen) :
                /\ q[2] <= Len(parts[q[1]].value)
                /\ q[4] <= Len(parts[q[3]].value)
                /\ q[1] < q[3] \/ (q[1] = q[3] /\ q[2] <= q[4]) } }

\* the selection of the first character, and what else a mouse-up can find:
\* no selection, no rectangle, a selection outside the viewer, outside any
\* paragraph at either end, across two paragraphs, in an element without
\* section id or paragraph index, or with a paragraph index that is no number
OtherSelections(parts) ==
    LET first == SelectionIn(parts, 1, 0, 1, 1) IN
    { [first EXCEPT !.present = FALSE],
      [first EXCEPT !.rectEmpty = TRUE],
      [first EXCEPT !.inViewer = FALSE],
      [first EXCEPT !.startPara = ""],
      [first EXCEPT !.endPara = ""],
      [first EXCEPT !.endPara = "s1/1"],
      [first EXCEPT !.sectionId = ""],
      [first EXCEPT !.paraIndexStr = ""],
      [first EXCEPT !.paraIndexStr = "x"],
      [first EXCEPT !.startPara = "s1/1", !.endPara = "s1/1", !.paraIndexStr = "1"] }

\* onMouseUp of the viewer once the paragraph is on display
mouseUpInParagraph(sel) ==
    /\ rPhase \in {"done", "selected"}
    /\ rPhase' = "selected"
    /\ rSelection' = sel
    /\ setDraftOnMouseUp(getSelectionDraft(sel))
    /\ UNCHANGED <<rText, rHighlights, rParts, storeVars, selectedAnnotationId,
                   showModal, remapTargetId, mode, envVars>>

NextRender ==
    \/ Render
    \/ /\ rParts # <<>>
       /\ \E sel \in ParagraphSelections(rParts) \cup OtherSelections(rParts) :
             mouseUpInParagraph(sel)

SpecRender == InitRender /\ [][NextRender]_vars

(***************************************************************************)
(* Properties of the renderer                                              *)
(***************************************************************************)
MarkIdx(parts) == { i \in 1..Len(parts) : parts[i].kind = "mark" }

\* C1: the values of the rendered fragments, concatenated in order, are
\* exactly the paragraph text, whatever the spans (overlapping, nested,
\* start < 0, end > length).
C1_ReconstructsText ==
    rPhase = "done" => ConcatValues(rParts) = rText

\* C2: no character index lies in two highlighted fragments; every
\* highlighted fragment begins no earlier than the end of the fragment before
\* it; and spans [0,5), [3,8) render as mark [0,5), mark [5,8), text [8,len).
C2_NoDuplicateCoverage ==
    rPhase = "done" =>
        /\ \A i, j \in MarkIdx(rParts) :
              i < j => \A k \in 0..(Len(rText) - 1) :
                 ~ ( /\ rParts[i].start <= k /\ k < rParts[i].end
                     /\ rParts[j].start <= k /\ k < rParts[j].end )
        /\ \A i \in 2..Len(rParts) : rParts[i].start >= rParts[i - 1].end
        /\ (rText = ScenarioText /\ rHighlights = ScenarioSpans) =>
              /\ Len(rParts) = 3
              /\ rParts[1].kind = "mark" /\ rParts[1].start = 0 /\ rParts[1].end = 5
              /\ rParts[2].kind = "mark" /\ rParts[2].start = 5 /\ rParts[2].end = 8
              /\ rParts[3].kind = "text" /\ rParts[3].start = 8 /\ rParts[3].end = 10

(***************************************************************************)
(* Further properties of the renderer                                      *)
(***************************************************************************)
\* the highlight a mark fragment was rendered for
SpanOf(part) ==
    rHighlights[CHOOSE i \in DOMAIN rHighlights : rHighlights[i].id = part.id]

\* position of the highlight with the given id in the highlights array
InsertionIndex(id) ==
    CHOOSE i \in DOMAIN rHighlights : rHighlights[i].id = id

ClampedStart(h) == clamp(h.start, 0, Len(rText))
ClampedEnd(h) == clamp(h.end, 0, Len(rText))

\* the mark fragments of parts, in the order they were pushed
Marks(parts) == SelectSeq(parts, LAMBDA p : p.kind = "mark")

(***************************************************************************)
(* C24: every highlighted fragment spans the clamped start and end of its  *)
(* span, the spans with end <= start after clamping give no fragment, and  *)
(* the spans that remain are processed in ascending order of their clamped *)
(* start, spans with the same clamped start in insertion order.            *)
(***************************************************************************)
C24_ClampDropSortStable ==
    rPhase = "done" =>
        LET marks == Marks(rParts) IN
        /\ \A p \in DOMAIN marks :
              /\ marks[p].start = ClampedStart(SpanOf(marks[p]))
              /\ marks[p].end = ClampedEnd(SpanOf(marks[p]))
              /\ 0 <= marks[p].start /\ marks[p].end <= Len(rText)
        /\ { marks[p].id : p \in DOMAIN marks }
              = { rHighlights[i].id : i \in { j \in DOMAIN rHighlights :
                     ClampedEnd(rHighlights[j]) > ClampedStart(rHighlights[j]) } }
        /\ Len(marks) = Cardinality({ marks[p].id : p \in DOMAIN marks })
        /\ \A p, q \in DOMAIN marks :
              p < q =>
                 \/ marks[p].start < marks[q].start
                 \/ /\ marks[p].start = marks[q].start
                    /\ InsertionIndex(marks[p].id) < InsertionIndex(marks[q].id)

(***************************************************************************)
(* C30: the renderer drops no character: every character index of the     *)
(* paragraph lies in a fragment that shows that character there, the first *)
(* fragment begins at 0, every later fragment begins no later than where   *)
(* the fragments before it have got to, and the fragments get to the end   *)
(* of the text.                                                            *)
(***************************************************************************)
C30_NoCharacterDropped ==
    rPhase = "done" =>
        /\ \A k \in 0..(Len(rText) - 1) :
              \E p \in DOMAIN rParts :
                 /\ rParts[p].start <= k /\ k < rParts[p].end
                 /\ Len(rParts[p].value) = rParts[p].end - rParts[p].start
                 /\ rParts[p].value[k - rParts[p].start + 1] = rText[k + 1]
        /\ Len(rText) > 0 => rParts[1].start = 0
        /\ \A p \in 2..Len(rParts) :
              \E q \in 1..(p - 1) : rParts[p].start <= rParts[q].end
        /\ Len(rText) > 0 => \E p \in DOMAIN rParts : rParts[p].end = Len(rText)

\* a paragraph rendered with a span that begins inside the one before it: the
\* cursor has gone back, and plain text follows
C30_Witness ==
    /\ rPhase = "done"
    /\ Len(rParts) >= 3
    /\ \E p \in 1..(Len(rParts) - 1) :
          /\ rParts[p].kind = "mark" /\ rParts[p + 1].kind = "mark"
          /\ rParts[p + 1].start < rParts[p].end
          /\ rParts[p + 1].end < rParts[p].end
    /\ rParts[Len(rParts)].kind = "text"
    /\ rParts[1].kind = "text"

(***************************************************************************)
(* Properties of the selection draft                                       *)
(***************************************************************************)
(***************************************************************************)
(* C23: the draft's startLocal and endLocal are offsets from the beginning *)
(* of the paragraph's text, startLocal <= endLocal, and the characters of  *)
(* the paragraph from startLocal up to endLocal are the text the user      *)
(* selected, whatever the fragments the paragraph is rendered in.          *)
(***************************************************************************)
C23_OffsetsAreParagraphOffsets ==
    (rPhase = "selected" /\ selectionDraft # NoDraft) =>
        /\ selectionDraft.startLocal <= selectionDraft.endLocal
        /\ Slice(rText, selectionDraft.startLocal, selectionDraft.endLocal)
              = rSelection.text

\* the selection fails one of the validations
FailsValidation(sel) ==
    \/ ~ sel.present
    \/ sel.isCollapsed
    \/ sel.rectEmpty
    \/ ~ sel.inViewer
    \/ \A i \in DOMAIN sel.text : sel.text[i] = " "
    \/ sel.startPara # sel.endPara
    \/ sel.startPara = ""
    \/ sel.sectionId = ""
    \/ sel.paraIndexStr \notin {"0", "1"}
    \/ sel.startOffset = sel.endOffset

(***************************************************************************)
(* C25: a mouse-up leaves no draft, whatever draft there was before, when  *)
(* there is no selection or a collapsed one, when its rectangle has no     *)
(* size, when it lies outside the viewer, when its text is blank, when its *)
(* ends lie in different paragraphs or outside any, when the paragraph has *)
(* no section id or no numeric paragraph index, and when its two offsets   *)
(* are equal.                                                              *)
(***************************************************************************)
C25_InvalidSelectionGivesNoDraft ==
    [][ (rPhase' = "selected" /\ FailsValidation(rSelection'))
           => selectionDraft' = NoDraft ]_vars

\* a selection that runs from one paragraph into the next has been made in a
\* paragraph rendered in several fragments, and there is no draft
C25_Witness ==
    /\ rPhase = "selected"
    /\ rSelection.present /\ ~ rSelection.isCollapsed
    /\ rSelection.startPara # "" /\ rSelection.endPara # ""
    /\ rSelection.startPara # rSelection.endPara
    /\ Len(rParts) >= 2
    /\ selectionDraft = NoDraft

(***************************************************************************)
(* Properties of the annotation store                                      *)
(***************************************************************************)
\* the annotations of all buckets
AllAnnotations ==
    UNION { { annotationsByVersion[v][i] : i \in 1..Len(annotationsByVersion[v]) }
            : v \in DOMAIN annotationsByVersion }

\* status of the annotation a handler finds for id, "none" when it finds none
StatusOf(list, id) ==
    IF FindIdx(list, id) = 0 THEN "none" ELSE list[FindIdx(list, id)].status

\* the step appends exactly one record, of the given type, to the log
Logs(type) ==
    /\ Len(activity') = Len(activity) + 1
    /\ Tail(activity') = activity
    /\ Head(activity').type = type

\* the most recent record of the log is of the given type
LastLogged(type) == Len(activity) > 0 /\ activity[1].type = type

\* a and b are the same but for the named fields
SameBut(a, b, fields) ==
    /\ DOMAIN a = DOMAIN b
    /\ \A k \in (DOMAIN a) \ fields : a[k] = b[k]

\* C3: in every reachable state every annotation of every bucket has status
\* NeedsRemap exactly when its anchor is Unanchored.
C3_NeedsRemapIffUnanchored ==
    \A a \in AllAnnotations :
        (a.status = "NeedsRemap") <=> isUnanchoredAnchor(a.anchor)

\* C4: toggleResolved on an annotation whose status is NeedsRemap, from the
\* Resolve button or from the Enter key, changes no bucket, no field of the
\* annotation and not the activity log.
C4_ToggleOnNeedsRemapIsNoOp ==
    [][ \A id \in CurrentIds :
          ( /\ StatusOf(currentAnnotations, id) = "NeedsRemap"
            /\ \/ toggleResolvedClick(id)
               \/ (selectedAnnotationId = id /\ keyEnter(TRUE)) )
          => UNCHANGED <<annotationsByVersion, activity, versionId>> ]_vars

\* a NeedsRemap annotation of the current version is selected in editor mode,
\* where the button and the Enter key both run into the early return, and the
\* log holds no resolved record for it
C4_Witness ==
    /\ ~ isReadOnly
    /\ StatusOf(currentAnnotations, selectedAnnotationId) = "NeedsRemap"
    /\ \A i \in 1..Len(activity) :
          activity[i].type = "ANNOTATION_RESOLVED"
             => activity[i].meta.annotationId # selectedAnnotationId

\* C5: a carry-over that finds a previous version puts, in front of the
\* current bucket, one new annotation per annotation of the previous bucket
\* that is not Resolved and none for the Resolved ones; each is NeedsRemap and
\* Unanchored{UserNeedsRemap}, has a fresh id and the content of its source;
\* 2 Open + 1 Resolved in the source add exactly 2.
C5_CarryOverCopiesUnresolved ==
    [][ (carryOverFromPrevious /\ ~ isReadOnly /\ previousVersionId # NullStr) =>
          LET prevAnns == Bucket(annotationsByVersion, previousVersionId)
              keep  == { i \in 1..Len(prevAnns) : prevAnns[i].status # "Resolved" }
              n     == Cardinality(keep)
              after == Bucket(annotationsByVersion', versionId)
          IN  /\ Len(after) = Len(currentAnnotations) + n
              /\ \A k \in 1..Len(currentAnnotations) :
                    after[n + k] = currentAnnotations[k]
              /\ \A k \in 1..n :
                    /\ after[k].status = "NeedsRemap"
                    /\ after[k].anchor = UnanchoredAnchor("UserNeedsRemap")
                    /\ after[k].versionId = versionId
                    /\ after[k].id \notin StoredIds
                    /\ \A j \in 1..n : after[j].id = after[k].id => j = k
                    /\ \E i \in keep :
                          SameBut(after[k], prevAnns[i],
                                  {"id", "versionId", "status", "anchor",
                                   "createdAt", "updatedAt"})
              /\ \A i \in keep : \E k \in 1..n :
                    SameBut(after[k], prevAnns[i],
                            {"id", "versionId", "status", "anchor",
                             "createdAt", "updatedAt"})
              /\ ( /\ Len(prevAnns) = 3
                   /\ Cardinality({ i \in 1..3 : prevAnns[i].status = "Open" }) = 2
                   /\ Cardinality({ i \in 1..3 : prevAnns[i].status = "Resolved" }) = 1 )
                 => Len(after) = Len(currentAnnotations) + 2 ]_vars

\* the carry-over of the scenario has happened: the previous bucket holds 2
\* Open and 1 Resolved annotation and the current one gained 2
C5_Witness ==
    /\ LastLogged("ANNOTATIONS_CARRIED_OVER")
    /\ activity[1].meta.count = 2
    /\ previousVersionId # NullStr
    /\ LET prevAnns == Bucket(annotationsByVersion, previousVersionId) IN
          /\ Len(prevAnns) = 3
          /\ Cardinality({ i \in 1..3 : prevAnns[i].status = "Open" }) = 2
          /\ Cardinality({ i \in 1..3 : prevAnns[i].status = "Resolved" }) = 1
    /\ Len(currentAnnotations) = 3
    /\ currentAnnotations[1].status = "NeedsRemap"
    /\ currentAnnotations[2].status = "NeedsRemap"

\* a step of one of the handlers that write annotations
BucketMutation ==
    \/ \E form \in DialogInputs : createAnnotation(form)
    \/ \E id \in IdArgs : toggleResolvedClick(id)
    \/ keyEnter(TRUE)
    \/ \E id \in IdArgs, u \in UserIds \cup {NullStr} : changeAssignee(id, u)
    \/ remapIssue
    \/ carryOverFromPrevious

\* C6: create, toggleResolved, changeAssignee, remap and carry-over leave every
\* bucket but the current version's as it was, and add or drop no other
\* bucket; carry-over leaves the previous version's bucket as it was.
C6_OtherBucketsUntouched ==
    [][ (annotationsByVersion' # annotationsByVersion /\ BucketMutation) =>
          /\ \A v \in DOMAIN annotationsByVersion :
                v # versionId =>
                   /\ v \in DOMAIN annotationsByVersion'
                   /\ annotationsByVersion'[v] = annotationsByVersion[v]
          /\ DOMAIN annotationsByVersion'
                \subseteq (DOMAIN annotationsByVersion) \cup {versionId}
          /\ (previousVersionId # NullStr /\ carryOverFromPrevious) =>
                Bucket(annotationsByVersion', previousVersionId)
                   = Bucket(annotationsByVersion, previousVersionId) ]_vars

\* a handler has just written the current bucket while another version holds
\* annotations of its own
C6_Witness ==
    /\ \E v \in DOMAIN annotationsByVersion :
          v # versionId /\ Len(annotationsByVersion[v]) = 3
    /\ Len(activity) > 0
    /\ activity[1].type \in {"ANNOTATION_CREATED", "ASSIGNEE_CHANGED",
                             "ANNOTATION_REMAPPED", "ANNOTATIONS_CARRIED_OVER"}
    /\ Len(currentAnnotations) > 0
    /\ currentAnnotations[1].updatedAt = activity[1].at

\* C7: a remap that finds its target in the current bucket, whatever the
\* status of the target, leaves it Open with a TextRange anchor on the draft's
\* sectionId, start and end and with the draft's quote, keeps its id, category,
\* severity, assignee and comment, and logs one remapped record.
C7_RemapReopens ==
    [][ ( /\ remapIssue
          /\ ~ isReadOnly
          /\ selectionDraft # NoDraft
          /\ FindIdx(currentAnnotations, remapTargetId) # 0 ) =>
          LET idx    == FindIdx(currentAnnotations, remapTargetId)
              before == currentAnnotations[idx]
              after  == Bucket(annotationsByVersion', versionId)[idx]
          IN  /\ after.status = "Open"
              /\ after.anchor.kind = "TextRange"
              /\ after.anchor.sectionId = selectionDraft.sectionId
              /\ after.anchor.start = selectionDraft.startLocal
              /\ after.anchor.end = selectionDraft.endLocal
              /\ after.quote = selectionDraft.quote
              /\ after.id = before.id
              /\ after.category = before.category
              /\ after.severity = before.severity
              /\ after.assigneeId = before.assigneeId
              /\ after.comment = before.comment
              /\ Logs("ANNOTATION_REMAPPED")
              /\ Head(activity').meta.annotationId = before.id ]_vars

\* an annotation was resolved and then remapped: it is Open again and sits on
\* a text range
C7_Witness ==
    /\ Len(activity) >= 2
    /\ activity[1].type = "ANNOTATION_REMAPPED"
    /\ activity[2].type = "ANNOTATION_RESOLVED"
    /\ activity[1].meta.annotationId = activity[2].meta.annotationId
    /\ StatusOf(currentAnnotations, activity[1].meta.annotationId) = "Open"
    /\ \E i \in 1..Len(currentAnnotations) :
          /\ currentAnnotations[i].id = activity[1].meta.annotationId
          /\ isTextRangeAnchor(currentAnnotations[i].anchor)

\* C8: importing the file Export JSON wrote gives back the buckets and the
\* activity log of the moment of the export, and the version on display is
\* the one exported.
C8_ExportImportRoundTrip ==
    [][ (exportedFile # NoFile /\ importJsonFile(exportedFile)) =>
          /\ annotationsByVersion' = exportedFrom.annotationsByVersion
          /\ activity' = exportedFrom.activity
          /\ versionId' = exportedFrom.versionId ]_vars

\* the store is the exported one again although ids were handed out after the
\* export, so what happened in between has been replaced by an import
C8_Witness ==
    /\ exportedFile # NoFile
    /\ storeVars = <<exportedFrom.versionId, exportedFrom.annotationsByVersion,
                     exportedFrom.activity>>
    /\ idCounter > JsValue(Prop(JsonParse(exportedFile), "exportedAt"))
    /\ \E a \in AllAnnotations : a.id < 100 /\ a.assigneeId = NullStr

\* C9: importing a file that is not JSON, that carries another schema, or that
\* lacks annotationsByVersion or activity leaves buckets, log, version,
\* selected annotation, remap target and selection draft as they were.
C9_RejectedImportChangesNothing ==
    [][ \A f \in RejectedFiles :
          importJsonFile(f) =>
             UNCHANGED <<annotationsByVersion, activity, versionId,
                         selectedAnnotationId, remapTargetId,
                         selectionDraft>> ]_vars

\* a state in which a rejected import has all six to keep: annotations, a log,
\* a version other than the initial one, a selected annotation, a remap target
\* and a draft
C9_Witness ==
    /\ AllAnnotations # {}
    /\ activity # <<>>
    /\ versionId # initialVersionId
    /\ selectedAnnotationId # NullId
    /\ remapTargetId # NullId
    /\ selectionDraft # NoDraft
    /\ \A f \in RejectedFiles : ~ ImportAccepts(f)

\* the files an import takes over, each with the payload it was written from
AcceptedFiles ==
    { [file |-> SeedFile, payload |-> SeedPayload],
      [file |-> HandWrittenFile, payload |-> HandWrittenPayload],
      [file |-> ResolvedOnlyFile, payload |-> ResolvedOnlyPayload] }

\* C10: importing an accepted file makes the buckets and the log exactly the
\* payload's, the version on display the payload's versionId when the payload
\* has one, and clears selected annotation, remap target and selection draft.
C10_AcceptedImportReplaces ==
    [][ \A x \in AcceptedFiles :
          importJsonFile(x.file) =>
             /\ annotationsByVersion' = x.payload.annotationsByVersion
             /\ activity' = x.payload.activity
             /\ ("versionId" \in DOMAIN x.payload) =>
                   versionId' = x.payload.versionId
             /\ selectedAnnotationId' = NullId
             /\ remapTargetId' = NullId
             /\ selectionDraft' = NoDraft ]_vars

\* the hand-written snapshot is all there is, although ids were handed out
\* before: what the store held then is gone
C10_Witness ==
    /\ annotationsByVersion = HandWrittenPayload.annotationsByVersion
    /\ activity = HandWrittenPayload.activity
    /\ idCounter > 1
    /\ selectedAnnotationId = NullId
    /\ remapTargetId = NullId
    /\ selectionDraft = NoDraft

(***************************************************************************)
(* C11: in editor mode, Create with a selection draft puts exactly one new *)
(* annotation at the head of the bucket of the version on display: status  *)
(* Open, a TextRange anchor with the draft's sectionId, start and end, the *)
(* draft's quote; one ANNOTATION_CREATED record is logged, the new         *)
(* annotation is the selected one and the draft is cleared.  Without a     *)
(* draft, Create changes nothing.                                          *)
(***************************************************************************)
C11_CreateAddsOpenAnnotation ==
    [][ \A form \in DialogInputs :
          createAnnotation(form) =>
            IF selectionDraft = NoDraft
            THEN UNCHANGED <<storeVars, uiVars>>
            ELSE ~ isReadOnly =>
                 LET after == Bucket(annotationsByVersion', versionId)
                     new   == Head(after)
                 IN  /\ Len(after) = Len(currentAnnotations) + 1
                     /\ Tail(after) = currentAnnotations
                     /\ new.id \notin StoredIds
                     /\ new.status = "Open"
                     /\ new.anchor = TextRangeAnchor(selectionDraft.sectionId,
                                                     selectionDraft.startLocal,
                                                     selectionDraft.endLocal)
                     /\ new.quote = selectionDraft.quote
                     /\ \A v \in DOMAIN annotationsByVersion' :
                           v # versionId =>
                             /\ v \in DOMAIN annotationsByVersion
                             /\ annotationsByVersion'[v] = annotationsByVersion[v]
                     /\ Logs("ANNOTATION_CREATED")
                     /\ Head(activity').meta.annotationId = new.id
                     /\ selectedAnnotationId' = new.id
                     /\ selectionDraft' = NoDraft
    ]_vars

\* an annotation has just been created from a draft: it heads its bucket, is
\* the selected one, and the draft is gone
C11_Witness ==
    /\ LastLogged("ANNOTATION_CREATED")
    /\ currentAnnotations # <<>>
    /\ Head(currentAnnotations).id = activity[1].meta.annotationId
    /\ Head(currentAnnotations).status = "Open"
    /\ isTextRangeAnchor(Head(currentAnnotations).anchor)
    /\ selectedAnnotationId = Head(currentAnnotations).id
    /\ selectionDraft = NoDraft
    /\ Len(currentAnnotations) >= 2

C13_ToggleFlipsStatus ==
    [][ \A id \in CurrentIds :
          ( /\ ~ isReadOnly
            /\ StatusOf(currentAnnotations, id) \in {"Open", "Resolved"}
            /\ toggleResolvedClick(id) )
          => LET i        == FindIdx(currentAnnotations, id)
                 before   == currentAnnotations[i]
                 list     == Bucket(annotationsByVersion', versionId)
                 after    == list[i]
             IN  /\ Len(list) = Len(currentAnnotations)
                 /\ SameBut(after, before, {"status", "updatedAt"})
                 /\ before.status = "Open" => after.status = "Resolved"
                 /\ before.status = "Resolved" => after.status = "Open"
                 /\ \A j \in DOMAIN list : j # i => list[j] = currentAnnotations[j]
                 /\ Logs(IF after.status = "Resolved" THEN "ANNOTATION_RESOLVED"
                                                      ELSE "ANNOTATION_REOPENED")
                 /\ Head(activity').meta.annotationId = id
                 /\ ( /\ LastLogged("ANNOTATION_RESOLVED")
                      /\ activity[1].meta.annotationId = id ) => after.status = "Open"
                 /\ ( /\ LastLogged("ANNOTATION_REOPENED")
                      /\ activity[1].meta.annotationId = id ) => after.status = "Resolved"
    ]_vars

\* an Open annotation has been resolved and reopened in two consecutive
\* toggles and is Open again
C13_Witness ==
    /\ Len(activity) >= 2
    /\ activity[1].type = "ANNOTATION_REOPENED"
    /\ activity[2].type = "ANNOTATION_RESOLVED"
    /\ activity[1].meta.annotationId = activity[2].meta.annotationId
    /\ StatusOf(currentAnnotations, activity[1].meta.annotationId) = "Open"

\* versionNumber of the version with id v
VersionNumberOf(v) ==
    DocVersions[CHOOSE i \in DOMAIN DocVersions : DocVersions[i].id = v].versionNumber

\* v is the version with the lowest versionNumber of the document
IsOldestVersion(v) ==
    \A w \in VersionIds : VersionNumberOf(v) <= VersionNumberOf(w)

\* the version that comes right before v by versionNumber
VersionBefore(v) ==
    CHOOSE w \in VersionIds :
        /\ VersionNumberOf(w) < VersionNumberOf(v)
        /\ \A x \in VersionIds :
              VersionNumberOf(x) < VersionNumberOf(v)
                 => VersionNumberOf(x) <= VersionNumberOf(w)

(***************************************************************************)
(* C14: carry-over changes no bucket and logs nothing when the version on  *)
(* display is the one with the lowest versionNumber, and when the bucket   *)
(* of the version before it holds no annotation with a status other than   *)
(* Resolved.                                                               *)
(***************************************************************************)
C14_CarryOverNothingToCarry ==
    [][ ( /\ carryOverFromPrevious
          /\ \/ IsOldestVersion(versionId)
             \/ \A a \in { Bucket(annotationsByVersion, VersionBefore(versionId))[i] :
                             i \in DOMAIN Bucket(annotationsByVersion,
                                                 VersionBefore(versionId)) } :
                   a.status = "Resolved" )
        => UNCHANGED <<annotationsByVersion, activity>>
    ]_vars

\* an editor looks at a version whose previous version has annotations, all
\* of them Resolved
C14_Witness ==
    /\ ~ isReadOnly
    /\ ~ IsOldestVersion(versionId)
    /\ Bucket(annotationsByVersion, VersionBefore(versionId)) # <<>>
    /\ \A i \in DOMAIN Bucket(annotationsByVersion, VersionBefore(versionId)) :
          Bucket(annotationsByVersion, VersionBefore(versionId))[i].status = "Resolved"

(***************************************************************************)
(* C15: Resolve / Reopen, the assignee change and the remap, called with   *)
(* an id that no annotation of the version on display has (an id that no   *)
(* annotation has at all, or the id of an annotation of another version),  *)
(* change no bucket and log nothing: a step that changes a bucket or the   *)
(* log is none of these calls.                                             *)
(***************************************************************************)
C15_UnknownIdIsNoOp ==
    [][ \/ UNCHANGED <<annotationsByVersion, activity>>
        \/ /\ \A id \in IdArgs \ CurrentIds :
                 /\ ~ toggleResolvedClick(id)
                 /\ \A u \in UserIds \cup {NullStr} : ~ changeAssignee(id, u)
           /\ ~ (remapTargetId \notin CurrentIds /\ remapIssue)
    ]_vars

\* an editor holds a selection draft and a remap target that is an annotation
\* of another version, while the version on display has annotations of its own
C15_Witness ==
    /\ ~ isReadOnly
    /\ selectionDraft # NoDraft
    /\ remapTargetId \in StoredIds \ CurrentIds
    /\ OtherId = remapTargetId
    /\ currentAnnotations # <<>>

\* the step puts exactly one record in front of the log and leaves the records
\* that were in it as they were, in their order
PrependsOneRecord ==
    /\ Len(activity') = Len(activity) + 1
    /\ Tail(activity') = activity

\* the step is the import of a file that is taken over
AcceptedImportStep == \E x \in AcceptedFiles : importJsonFile(x.file)

(***************************************************************************)
(* C16, as stated: the activity log is append-only, most recent first: no  *)
(* step removes, reorders or changes a record of the log, a step leaves    *)
(* the log alone or puts one record in front of it.                        *)
(***************************************************************************)
C16_LogAppendOnly ==
    [][ activity' = activity \/ PrependsOneRecord ]_vars

(***************************************************************************)
(* C16, amended: every step but the import of an accepted file leaves the  *)
(* log alone or puts exactly one record in front of it; every create,      *)
(* resolve, reopen, assignee change, remap and carry-over that changes a   *)
(* bucket and every version switch puts exactly one record in front of it; *)
(* the import of an accepted file replaces the log by the file's.          *)
(***************************************************************************)
C16_LogAppendOnlyButImport ==
    [][ /\ \/ activity' = activity
           \/ PrependsOneRecord
           \/ AcceptedImportStep
        /\ (annotationsByVersion' # annotationsByVersion \/ versionId' # versionId)
              => (PrependsOneRecord \/ AcceptedImportStep)
        /\ \A v \in VersionIds :
              (versionId' = v /\ activity' # activity /\ switchVersion(v))
                 => Logs("VERSION_SWITCHED")
    ]_vars

\* the log of an imported snapshot has grown at its head: its oldest record is
\* the snapshot's, the records in front of it were made after the import, and
\* the record of the mount is gone
C16_Witness ==
    /\ Len(activity) >= 3
    /\ activity[Len(activity)].id = 201
    /\ \A i \in 1..(Len(activity) - 1) : activity[i].id <= MaxIds
    /\ \A i \in 1..(Len(activity) - 2) : activity[i].id > activity[i + 1].id

C18_SelectingSupersedesRemap ==
    [][ /\ \A id \in IdArgs :
              (~ isReadOnly /\ startRemap(id)) => remapTargetId' = id
        /\ \A id \in CurrentIds :
              ( /\ remapTargetId # NullId
                /\ id # remapTargetId
                /\ setSelectedAnnotationId(id) )
              => remapTargetId' # remapTargetId
    ]_vars

(***************************************************************************)
(* C19: while a remap target is set, confirming a selection draft adds no  *)
(* annotation to any bucket: the Create button of the dialog, pressed      *)
(* while remapTargetId is set, leaves every bucket as it is.               *)
(***************************************************************************)
C19_NoCreateDuringRemap ==
    [][ \A form \in DialogInputs :
          (remapTargetId # NullId /\ showModal /\ createAnnotation(form))
             => UNCHANGED annotationsByVersion
    ]_vars

(***************************************************************************)
(* C20: in every reachable state no two annotations of the store, of the   *)
(* same bucket or of different ones, have the same id, and every           *)
(* annotation of the bucket of version v has versionId = v.                *)
(***************************************************************************)
C20_IdsUniqueVersionsMatch ==
    /\ \A v, w \in DOMAIN annotationsByVersion :
          \A i \in DOMAIN annotationsByVersion[v], j \in DOMAIN annotationsByVersion[w] :
             annotationsByVersion[v][i].id = annotationsByVersion[w][j].id
                => (v = w /\ i = j)
    /\ \A v \in DOMAIN annotationsByVersion :
          \A i \in DOMAIN annotationsByVersion[v] :
             annotationsByVersion[v][i].versionId = v

(***************************************************************************)
(* C22: a carry-over that adds annotations puts them in front of those the *)
(* bucket of the version on display had, in the order of their sources in  *)
(* the bucket of the version before; each has the category, severity,      *)
(* quote, comment and assigneeId of its source and the versionId of the    *)
(* version on display; one ANNOTATIONS_CARRIED_OVER record is logged, its  *)
(* count is the number of annotations added, its fromVersionId the version *)
(* before and its toVersionId the version on display.                      *)
(***************************************************************************)
C22_CarryOverKeepsContentAndOrder ==
    [][ ( /\ ~ isReadOnly
          /\ ~ IsOldestVersion(versionId)
          /\ annotationsByVersion' # annotationsByVersion
          /\ carryOverFromPrevious ) =>
          LET from    == VersionBefore(versionId)
              sources == SelectSeq(Bucket(annotationsByVersion, from),
                                   LAMBDA a : a.status # "Resolved")
              after   == Bucket(annotationsByVersion', versionId)
              added   == Len(after) - Len(currentAnnotations)
          IN  /\ added = Len(sources)
              /\ added > 0
              /\ SubSeq(after, added + 1, Len(after)) = currentAnnotations
              /\ \A k \in 1..added :
                    /\ after[k].category = sources[k].category
                    /\ after[k].severity = sources[k].severity
                    /\ after[k].quote = sources[k].quote
                    /\ after[k].comment = sources[k].comment
                    /\ after[k].assigneeId = sources[k].assigneeId
                    /\ after[k].versionId = versionId
                    /\ after[k].id # sources[k].id
              /\ Logs("ANNOTATIONS_CARRIED_OVER")
              /\ Head(activity').meta =
                    [fromVersionId |-> from, toVersionId |-> versionId,
                     count |-> added]
    ]_vars

\* two annotations were carried from v1 to v2 and stand, in the order of
\* their sources, in front of the annotation v2 had before
C22_Witness ==
    /\ LastLogged("ANNOTATIONS_CARRIED_OVER")
    /\ activity[1].meta = [fromVersionId |-> "v1", toVersionId |-> "v2", count |-> 2]
    /\ versionId = "v2"
    /\ Len(currentAnnotations) = 3
    /\ currentAnnotations[1].quote = Bucket(annotationsByVersion, "v1")[1].quote
    /\ currentAnnotations[2].quote = Bucket(annotationsByVersion, "v1")[3].quote
    /\ currentAnnotations[1].quote # currentAnnotations[2].quote
    /\ currentAnnotations[3].id = 104

(***************************************************************************)
(* C27: the assignee change on an annotation of the version on display,    *)
(* whatever its status, NeedsRemap included, sets its assigneeId to the    *)
(* user id given, or to null, changes nothing else of it but updatedAt,    *)
(* and logs one ASSIGNEE_CHANGED record whose toUserId is that user id.    *)
(***************************************************************************)
C27_ChangeAssigneeSetsOnlyAssignee ==
    [][ \A id \in CurrentIds, u \in UserIds \cup {NullStr} :
          (~ isReadOnly /\ changeAssignee(id, u)) =>
             LET i      == FindIdx(currentAnnotations, id)
                 before == currentAnnotations[i]
                 list   == Bucket(annotationsByVersion', versionId)
                 after  == list[i]
             IN  /\ Len(list) = Len(currentAnnotations)
                 /\ after.assigneeId = u
                 /\ SameBut(after, before, {"assigneeId", "updatedAt"})
                 /\ after.status = before.status
                 /\ after.anchor = before.anchor
                 /\ Logs("ASSIGNEE_CHANGED")
                 /\ Head(activity').meta =
                       [annotationId |-> id, quote |-> before.quote, toUserId |-> u]
    ]_vars

\* an annotation that waits for a remap has been given to a user, and then an
\* assignee change has left one without assignee
C27_Witness ==
    /\ Len(activity) >= 2
    /\ activity[1].type = "ASSIGNEE_CHANGED"
    /\ activity[1].meta.toUserId = NullStr
    /\ activity[2].type = "ASSIGNEE_CHANGED"
    /\ activity[2].meta.toUserId \in UserIds
    /\ \E i \in DOMAIN currentAnnotations :
          /\ currentAnnotations[i].id = activity[2].meta.annotationId
          /\ currentAnnotations[i].status = "NeedsRemap"
    /\ \E i \in DOMAIN currentAnnotations :
          /\ currentAnnotations[i].id = activity[1].meta.annotationId
          /\ currentAnnotations[i].assigneeId = NullStr

\* the step leaves createdAt of the annotation with the given id of the
\* version on display as it was, sets its updatedAt to the time of the step
\* and leaves every other annotation of the bucket as it was
StampsUpdatedAtOnly(id) ==
    LET i    == FindIdx(currentAnnotations, id)
        list == Bucket(annotationsByVersion', versionId)
    IN  /\ Len(list) = Len(currentAnnotations)
        /\ list[i].id = id
        /\ list[i].createdAt = currentAnnotations[i].createdAt
        /\ list[i].updatedAt = nowIso
        /\ \A j \in DOMAIN list : j # i => list[j] = currentAnnotations[j]

\* every Resolve / Reopen, assignee change and remap that changes a bucket
\* stamps updatedAt of its annotation and nothing else in time
MutationsStampUpdatedAt ==
    annotationsByVersion' # annotationsByVersion =>
       \A id \in CurrentIds :
          ( \/ toggleResolvedClick(id)
            \/ \E u \in UserIds \cup {NullStr} : changeAssignee(id, u)
            \/ (remapTargetId = id /\ remapIssue) )
          => StampsUpdatedAtOnly(id)

OnSection(list, sid) ==
    { i \in DOMAIN list :
         list[i].anchor.kind = "TextRange" /\ list[i].anchor.sectionId = sid }

(***************************************************************************)
(* C26: the spans handed to the renderer for a paragraph are those of the  *)
(* annotations of the version on display that have a TextRange anchor with *)
(* the sectionId of the paragraph's section, one span each, in the order   *)
(* of the bucket, with the id, start, end and status of the annotation;    *)
(* they are the same for every paragraph of the section; annotations       *)
(* without text anchor, of other sections or of other versions give none.  *)
(***************************************************************************)
C26_SpansOfSectionAndVersion ==
    \A n \in DOMAIN currentSections :
       LET s == currentSections[n] IN
       \A idx \in 0..(s.paragraphs - 1) :
          LET hs == paragraphHighlights(s, idx)
              on == OnSection(currentAnnotations, s.id)
          IN  /\ Len(hs) = Cardinality(on)
              /\ \A k \in DOMAIN hs :
                    \E i \in on :
                       /\ hs[k] = [id |-> currentAnnotations[i].id,
                                   start |-> currentAnnotations[i].anchor.start,
                                   end |-> currentAnnotations[i].anchor.end,
                                   status |-> currentAnnotations[i].status]
                       /\ Cardinality({ j \in on : j < i }) = k - 1
              /\ hs = paragraphHighlights(s, 0)

\* the version on display has an annotation on a text range of s1 and one
\* without text anchor, and the other version has annotations on s1 as well:
\* the paragraphs of s1 get one span, those of s2 none
C26_Witness ==
    /\ Len(currentAnnotations) = 2
    /\ Cardinality(OnSection(currentAnnotations, "s1")) = 1
    /\ \E i \in DOMAIN currentAnnotations :
          currentAnnotations[i].anchor.kind = "Unanchored"
    /\ \E v \in DOMAIN annotationsByVersion :
          /\ v # versionId
          /\ OnSection(annotationsByVersion[v], "s1") # {}
    /\ Len(paragraphHighlights(currentSections[1], 1)) = 1
    /\ Len(paragraphHighlights(currentSections[2], 0)) = 0

(***************************************************************************)
(* C21: in every reachable state every TextRange anchor of an annotation   *)
(* of the store has 0 <= start < end.                                      *)
(***************************************************************************)
C21_TextRangeNotEmpty ==
    \A a \in AllAnnotations :
       isTextRangeAnchor(a.anchor) =>
          (0 <= a.anchor.start /\ a.anchor.start < a.anchor.end)

(***************************************************************************)
(* Properties of the import with its file read                             *)
(***************************************************************************)
\* the list of pending reads without its i-th element
WithoutRead(reads, i) ==
    [j \in 1..(Len(reads) - 1) |-> IF j < i THEN reads[j] ELSE reads[j + 1]]

\* the step resolves the pending read i, and its file is one that is taken over
ResolvesAccepted(i) ==
    /\ Len(pendingReads') < Len(pendingReads)
    /\ pendingReads' = WithoutRead(pendingReads, i)
    /\ ImportAccepts(pendingReads[i].file)

\* the store after the step is the content of the file, nothing else
StoreIsPayloadOf(text) ==
    LET parsed == JsonParse(text) IN
    /\ annotationsByVersion' = JsValue(Prop(parsed, "annotationsByVersion"))
    /\ activity' = JsValue(Prop(parsed, "activity"))
    /\ Prop(parsed, "versionId").t = "str"
          => versionId' = Prop(parsed, "versionId").v

(***************************************************************************)
(* C28: starting an import changes neither the store nor the interface     *)
(* state; while its read is pending an annotation can still be created;    *)
(* when a read resolves with a file that is taken over, the buckets, the   *)
(* log and the version are exactly those of the file, whatever was done    *)
(* since the read started and whichever other read is still pending, so    *)
(* that of two overlapping imports the one that resolves last decides.     *)
(***************************************************************************)
C28_PendingImportThenReplace ==
    /\ [] ((pendingReads # << >> /\ ~ isReadOnly /\ selectionDraft # NoDraft
              /\ CanGen(2))
            => ENABLED (\E form \in DialogInputs :
                          /\ createAnnotation(form)
                          /\ annotationsByVersion' # annotationsByVersion))
    /\ [][ /\ Len(pendingReads') > Len(pendingReads)
              => UNCHANGED <<storeVars, uiVars>>
           /\ \A i \in DOMAIN pendingReads :
                 ResolvesAccepted(i) => StoreIsPayloadOf(pendingReads[i].file)
        ]_vars

\* two imports of different files overlap, and an annotation has been created
\* after the first read started and before the second did
C28_Witness ==
    /\ Len(pendingReads) = 2
    /\ pendingReads[1].file # pendingReads[2].file
    /\ ImportAccepts(pendingReads[1].file)
    /\ ImportAccepts(pendingReads[2].file)
    /\ \E a \in AllAnnotations :
          /\ a.id <= MaxIds
          /\ pendingReads[1].startedAt <= a.createdAt
          /\ a.createdAt < pendingReads[2].startedAt

(***************************************************************************)
(* C31: while the mode is viewer no step changes the annotation buckets or *)
(* the activity log, the import of a file and the switch of the version    *)
(* included.                                                               *)
(***************************************************************************)
C31_ViewerChangesNeitherBucketsNorLog ==
    [][ mode = "viewer" => UNCHANGED <<annotationsByVersion, activity>> ]_vars

(***************************************************************************)
(* C35: a switch of the version changes no bucket; it puts the chosen      *)
(* version on display, clears the selected annotation, the selection       *)
(* draft, the create dialog and the remap target and puts one              *)
(* VERSION_SWITCHED record that names the chosen version in front of the   *)
(* log.  An annotation created after it is put into the bucket of the      *)
(* version now on display, carries that version id, and no other bucket    *)
(* changes.                                                                *)
(***************************************************************************)
C35_SwitchVersionMovesTheDisplayOnly ==
    [][ /\ \A v \in VersionIds :
              (versionId' = v /\ activity' # activity /\ switchVersion(v)) =>
                 /\ annotationsByVersion' = annotationsByVersion
                 /\ selectedAnnotationId' = NullId
                 /\ selectionDraft' = NoDraft
                 /\ showModal' = FALSE
                 /\ remapTargetId' = NullId
                 /\ Len(activity') = Len(activity) + 1
                 /\ Tail(activity') = activity
                 /\ activity'[1].type = "VERSION_SWITCHED"
                 /\ activity'[1].meta = [toVersionId |-> v]
        /\ (/\ annotationsByVersion' # annotationsByVersion
            /\ \E form \in DialogInputs : createAnnotation(form)) =>
                 /\ Len(Bucket(annotationsByVersion', versionId))
                       = Len(currentAnnotations) + 1
                 /\ Tail(Bucket(annotationsByVersion', versionId)) = currentAnnotations
                 /\ Bucket(annotationsByVersion', versionId)[1].versionId = versionId
                 /\ \A v \in VersionIds \ {versionId} :
                       Bucket(annotationsByVersion', v) = Bucket(annotationsByVersion, v)
      ]_vars

\* the version was switched to v1 and an annotation was created then: it is in
\* the bucket of v1 and in no other
C35_Witness ==
    /\ Len(activity) >= 3
    /\ activity[1].type = "ANNOTATION_CREATED"
    /\ activity[2].type = "VERSION_SWITCHED"
    /\ activity[2].meta.toVersionId = "v1"
    /\ versionId = "v1"
    /\ versionId # initialVersionId
    /\ Len(currentAnnotations) > 0
    /\ currentAnnotations[1].id = activity[1].meta.annotationId
    /\ currentAnnotations[1].versionId = "v1"
    /\ \A i \in DOMAIN Bucket(annotationsByVersion, "v2") :
          Bucket(annotationsByVersion, "v2")[i].id # activity[1].meta.annotationId

(***************************************************************************)
(* C36: the ANNOTATION_REMAPPED record a remap logs carries the id of the  *)
(* remap target and the quote the target had before the remap, not the     *)
(* quote of the draft; the ANNOTATION_RESOLVED, ANNOTATION_REOPENED and    *)
(* ASSIGNEE_CHANGED records carry the id of the annotation and the quote   *)
(* it has when the operation runs.                                         *)
(***************************************************************************)
C36_RecordsCarryTheQuoteBefore ==
    [][ (activity' # activity /\ Len(activity') = Len(activity) + 1
           /\ activity'[1].type \in {"ANNOTATION_REMAPPED", "ANNOTATION_RESOLVED",
                                     "ANNOTATION_REOPENED", "ASSIGNEE_CHANGED"}
           /\ Tail(activity') = activity) =>
          LET rec == activity'[1]
              at  == FindIdx(currentAnnotations, rec.meta.annotationId)
          IN  /\ at # 0
              /\ rec.meta.quote = currentAnnotations[at].quote
              /\ rec.type = "ANNOTATION_REMAPPED" =>
                    /\ rec.meta.annotationId = remapTargetId
                    /\ rec.meta = [annotationId |-> remapTargetId,
                                   quote |-> currentAnnotations[at].quote]
      ]_vars

\* a remap has just given its target another quote: the record holds the
\* quote it had before
C36_Witness ==
    /\ LastLogged("ANNOTATION_REMAPPED")
    /\ \E i \in DOMAIN currentAnnotations :
          /\ currentAnnotations[i].id = activity[1].meta.annotationId
          /\ currentAnnotations[i].quote # activity[1].meta.quote
          /\ currentAnnotations[i].quote \in { d.quote : d \in Drafts }

(***************************************************************************)
(* Properties of the remap target                                          *)
(***************************************************************************)
\* the step is one of those that end a remap
EndsRemap ==
    \/ \E v \in VersionIds : switchVersion(v)
    \/ \E f \in ForeignFiles : ImportAccepts(f) /\ importJsonFile(f)
    \/ (activity' # activity /\ remapIssue)
    \/ (showModal' /\ ~ showModal /\ openCreateModal)
    \/ closeAllOverlays

(***************************************************************************)
(* C32: when the interface has set a remap target, the target is the id of *)
(* an annotation of the bucket on display that has the status NeedsRemap;  *)
(* after a switch of the version, an import that is taken over, a remap    *)
(* that was carried out, the opening of the create dialog and Escape there *)
(* is no remap target.                                                     *)
(***************************************************************************)
C32_RemapTargetWaitsForRemap ==
    /\ [] (remapTargetId # NullId =>
             \E i \in DOMAIN currentAnnotations :
                /\ currentAnnotations[i].id = remapTargetId
                /\ currentAnnotations[i].status = "NeedsRemap")
    /\ [][ remapTargetId' = NullId \/ ~ EndsRemap ]_vars

\* a remap is under way with a draft at hand, and the bucket on display holds
\* other annotations besides the target
C32_Witness ==
    /\ remapTargetId # NullId
    /\ selectionDraft # NoDraft
    /\ Len(currentAnnotations) >= 2
    /\ \E i \in DOMAIN currentAnnotations :
          /\ currentAnnotations[i].id # remapTargetId
          /\ currentAnnotations[i].status # "NeedsRemap"

(***************************************************************************)
(* C33: the version id on display is the id of one of the versions of the  *)
(* document; the content shown is the content of that version; the         *)
(* previous version carry-over reads is the one with the next lower        *)
(* versionNumber, and there is none for the oldest version.                *)
(***************************************************************************)
C33_DisplayedVersionIsOfTheDocument ==
    /\ versionId \in VersionIds
    /\ currentSections = DocContent[versionId]
    /\ previousVersionId = IF IsOldestVersion(versionId)
                           THEN NullStr
                           ELSE VersionBefore(versionId)

(***************************************************************************)
(* Properties of repeated carry-over                                       *)
(***************************************************************************)
\* the annotations of the previous version that are not Resolved, by index
EligibleInPrevious ==
    LET prev == Bucket(annotationsByVersion, previousVersionId)
    IN  { i \in DOMAIN prev : prev[i].status # "Resolved" }

\* b has the content of a that a carry-over copies
CopyOf(a, b) ==
    /\ b.quote = a.quote /\ b.category = a.category /\ b.severity = a.severity
    /\ b.comment = a.comment /\ b.assigneeId = a.assigneeId

\* the current bucket after the step is the one before it with n annotations
\* in front whose ids differ from each other and from every id in the store
GrowsByFresh(n) ==
    LET after == Bucket(annotationsByVersion', versionId) IN
    /\ Len(after) = Len(currentAnnotations) + n
    /\ SubSeq(after, n + 1, Len(after)) = currentAnnotations
    /\ \A i, j \in 1..n : i # j => after[i].id # after[j].id
    /\ \A i \in 1..n : \A a \in AllAnnotations : after[i].id # a.id

(***************************************************************************)
(* C34: carry-over does not remember what it has carried before.  In       *)
(* editor mode, with n > 0 annotations of the previous version that are    *)
(* not Resolved and ids at hand, carry-over can always run and puts n new  *)
(* annotations with fresh, distinct ids in front of the current bucket,    *)
(* whatever the bucket holds already; after two carry-overs in a row from  *)
(* the same source the bucket holds two copies of each of the n, under     *)
(* different ids.                                                          *)
(***************************************************************************)
C34_CarryOverHasNoMemory ==
    /\ [] ((mode = "editor" /\ previousVersionId # NullStr
              /\ EligibleInPrevious # {}
              /\ CanGen(Cardinality(EligibleInPrevious) + 1))
            => ENABLED (/\ carryOverFromPrevious
                        /\ GrowsByFresh(Cardinality(EligibleInPrevious))))
    /\ [] ((Len(activity) >= 2
              /\ activity[1].type = "ANNOTATIONS_CARRIED_OVER"
              /\ activity[2].type = "ANNOTATIONS_CARRIED_OVER"
              /\ activity[1].meta = activity[2].meta)
            => LET n == activity[1].meta.count IN
               /\ Len(currentAnnotations) >= 2 * n
               /\ \A i \in 1..n :
                     /\ CopyOf(currentAnnotations[i], currentAnnotations[i + n])
                     /\ currentAnnotations[i].id # currentAnnotations[i + n].id)
    /\ [][ (annotationsByVersion' # annotationsByVersion
              /\ carryOverFromPrevious)
           => GrowsByFresh(Cardinality(EligibleInPrevious)) ]_vars

\* the two annotations of v1 that are not Resolved were carried over to v2
\* twice in a row: v2 holds two copies of each
C34_Witness ==
    /\ Len(activity) >= 2
    /\ activity[1].type = "ANNOTATIONS_CARRIED_OVER"
    /\ activity[2].type = "ANNOTATIONS_CARRIED_OVER"
    /\ activity[1].meta = activity[2].meta
    /\ activity[1].meta.count = 2
    /\ activity[1].meta.toVersionId = versionId
    /\ Len(currentAnnotations) >= 4
    /\ Cardinality({ currentAnnotations[i].id : i \in 1..4 }) = 4
    /\ \A i \in 1..2 : CopyOf(currentAnnotations[i], currentAnnotations[i + 2])

====
